---- MODULE Spec2Model ----
(***************************************************************************)
(* A model of the form-analysis agent: the orchestrator of src/agent.py    *)
(* (the cache of processed forms, the call counter, the run_workflow       *)
(* dispatch), the structured-generation decode of src/llm_client.py, the   *)
(* capability tools of src/tools.py and the ingestion of                   *)
(* src/document_processor.py, each layer with a specification of its own.  *)
(*                                                                         *)
(* The caller is a single thread of control.  An invocation of an atomic   *)
(* agent method (process_form, ask, summarize, analyze, _analyze_task,     *)
(* get_stats, clear_cache) is one action; the composite methods            *)
(* (process_forms, run_workflow) are a sequence of such steps, during      *)
(* which no other method can start.  The file system and the language      *)
(* model are the environment: what they answer is an input of the step.    *)
(*                                                                         *)
(* Two further specifications refine the orchestrator.  SpecForms keeps    *)
(* the ProcessedForm objects by identity with their fields, and a file     *)
(* system in which two path strings can name one file.  SpecConcurrent     *)
(* has two callers of one agent, whose process_form calls interleave line  *)
(* by line: the agent takes no lock.                                       *)
(***************************************************************************)
EXTENDS Integers, Sequences, FiniteSets, TLC

\* ------------------------------------------------------------------ bounds
\* The number of invocations a behaviour makes of the methods that can call
\* the language model (every method but get_stats and clear_cache, which
\* change no counter and are not capped).
MaxOps == 2
\* The longest list of paths (or of forms) a caller passes.
MaxDocs == 2
\* The longest response text of the language model, in tokens.
MaxLen == 6
\* The number of runs a behaviour makes of the capability tools taken alone.
MaxRuns == 2
\* The most pages a PDF file has.
MaxPages == 2
\* The most elements of a JSON array.
MaxRows == 2
\* The longest content of a CSV file, in tokens.
MaxCsvLen == 5

\* The path strings a caller passes.
Paths == {"a", "b"}

\* Sequences over S of length at most n.
SeqsUpTo(S, n) == UNION {[1..k -> S] : k \in 0..n}

PathLists == SeqsUpTo(Paths, MaxDocs)

\* What the file system answers to os.path.exists(file_path) during one
\* ingestion.
FileSystems == BOOLEAN

\* What one call of a capability tool ends with: the decoded mapping is
\* returned ("ok"), or the call raises ("raise": a transport error of the
\* generation capability, or the ValueError of an undecodable response).
ToolResponses == {"ok", "raise"}

\* What a call of the field-extraction or of the question-answering tool ends
\* with, as their caller sees it: beside the two above, the tool returns a
\* result the progress message of agent.py:183-185 (agent.py:257) cannot be
\* built from ("unusable": fields without a length, or a confidence that is
\* no number), so that the f-string raises after the counter was incremented.
AnswerResponses == ToolResponses \cup {"unusable"}

\* What the classification call ends with: it raises, or it returns a
\* mapping whose task_type is one of the four labels, some other value
\* ("other"), or that has no task_type key at all ("nokey").
TaskTypes == {"extract", "qa", "summarize", "analyze"}
ClassifyResponses == TaskTypes \cup {"other", "nokey", "raise"}

VARIABLES
    processed_forms,   \* agent._processed_forms: path -> ProcessedForm
    total_llm_calls,   \* agent.total_llm_calls
    next_id,           \* identity of the next ProcessedForm instance built
    pc,                \* where the caller is: "idle", "processing", "dispatch"
    wf,                \* the frame of the composite method being executed
    log,               \* the events of the current / last top-level invocation
    result,            \* how the last top-level invocation ended
    issued,            \* calls issued to the generation capability so far
    extract_calls,     \* per path: field-extraction calls issued since the last clear_cache
    forced_calls,      \* per path: process_form calls with force_reprocess=true since then
    failed_calls,      \* per path: unforced process_form calls that issued an extraction
                       \* call and failed (the call raised, or its answer was unusable)
    stored,            \* per path: the instance the last successful process_form stored
                       \* since the last clear_cache (its id; 0: none)
    cleared,           \* the paths the last clear_cache dropped from the cache
    nops,              \* invocations made so far of the methods capped by MaxOps
    response,          \* the text the language model answered: a sequence of tokens
    decoded,           \* what generate_structured made of the response
    llm_calls,         \* generate_structured calls the tools have made on their client
    tool_result,       \* how the last run of a capability tool ended
    source,            \* the file a path names, and what reading it meets
    extracted,         \* what DocumentProcessor.process made of the source
    callers,           \* per caller of a shared agent: where its process_form call is
    instances          \* the ProcessedForm objects built so far: id -> their fields

agent == <<processed_forms, total_llm_calls, next_id>>
ghost == <<issued, extract_calls, forced_calls, failed_calls, stored, cleared>>
decoder == <<response, decoded>>
toolbox == <<llm_calls, tool_result>>
ingestion == <<source, extracted>>
\* What the model of the single caller leaves out: the interleaving of
\* several callers, and the fields of the forms (it holds their identities).
detail == <<callers, instances>>
layers == <<decoder, toolbox, ingestion, detail>>
orchestrator == <<processed_forms, total_llm_calls, next_id, pc, wf, log, result,
                  issued, extract_calls, forced_calls, failed_calls, stored, cleared, nops,
                  callers, instances>>
vars == <<processed_forms, total_llm_calls, next_id, pc, wf, log, result,
          issued, extract_calls, forced_calls, failed_calls, stored, cleared, nops,
          response, decoded, llm_calls, tool_result, source, extracted,
          callers, instances>>

\* ------------------------------------------------------------- data model
\* A ProcessedForm instance: its identity and the file_path it was built for.
ProcessedForm(id, path) == [id |-> id, file_path |-> path]

\* The form for path p a caller passes to ask / summarize / analyze: the
\* cached instance, or (held = TRUE, or nothing cached) an instance the cache
\* does not hold: one the caller built, or one returned before a clear_cache
\* or a forced reprocess.
CallerForm(p, held) ==
    IF ~held /\ p \in DOMAIN processed_forms THEN processed_forms[p] ELSE ProcessedForm(0, p)

KnownForms == {CallerForm(p, held) : p \in Paths, held \in BOOLEAN}

\* The lists of forms a caller passes to analyze / ask_multiple.
KnownFormLists ==
    {[i \in 1..Len(paths) |-> CallerForm(paths[i], held)] :
        paths \in SeqsUpTo(Paths, MaxDocs), held \in BOOLEAN}

NoForms == <<>>
\* The frame of a composite method: its arguments, its locals (forms,
\* task_type, the summaries made so far) and, for the bookkeeping of the
\* calls it makes, what the agent held when it was entered.
NoFrame ==
    [kind |-> "none", paths |-> <<>>, forms |-> <<>>, task_type |-> "", nsum |-> 0,
     before |-> [cached |-> {}, total_llm_calls |-> 0, issued |-> 0]]
Frame(kind, paths) ==
    [NoFrame EXCEPT !.kind = kind, !.paths = paths,
                    !.before = [cached |-> DOMAIN processed_forms,
                                total_llm_calls |-> total_llm_calls,
                                issued |-> issued]]

\* One event of an invocation: a cache hit, an ingestion, or a call of the
\* generation capability ("extract", "classify", "qa", "summarize", "analyze").
Event(ev, path, forms) == [ev |-> ev, path |-> path, forms |-> forms]

NoStats == [total_llm_calls |-> 0, cached_forms |-> 0, cached_form_paths |-> {}]

\* How a top-level invocation ended: the method, its arguments (path, force),
\* "ok" / "raised" / "running", and what it returned.
Result(op) ==
    [op |-> op, path |-> "", force |-> FALSE, status |-> "ok", type |-> "",
     forms |-> NoForms, summaries |-> <<>>, error |-> "", stats |-> NoStats]
Returned(op, type, forms) == [Result(op) EXCEPT !.type = type, !.forms = forms]
Raised(r, error) ==
    [r EXCEPT !.status = "raised", !.type = "", !.forms = NoForms,
              !.summaries = <<>>, !.error = error]
Running(op) == [Result(op) EXCEPT !.status = "running"]

ZeroCount == [p \in Paths |-> 0]
EmptyCache == [p \in {} |-> ProcessedForm(0, "")]

\* llm_client.py:152: no response has been received, nothing decoded.
NotDecoded == [status |-> "none", content |-> <<>>, value |-> "", error |-> "", text |-> <<>>]

\* The callers that share one agent.
Callers == {1, 2}

\* A caller that is in no call; and what a caller holds during and after a
\* process_form call: the line it is at, its arguments, the answer to its
\* extraction call, the value of total_llm_calls it has loaded, how the call
\* ended and the form it returned.
NotCalling ==
    [pc |-> "idle", path |-> "", force |-> FALSE, resp |-> "", loaded |-> 0,
     outcome |-> "none", form |-> <<>>]
NoCallers == [t \in Callers |-> NotCalling]

\* No ProcessedForm has been built.
NoInstances == <<>>

\* agent.py:111-140: the agent after construction.
AgentInit ==
    /\ processed_forms = EmptyCache
    /\ total_llm_calls = 0
    /\ next_id = 1
    /\ pc = "idle"
    /\ wf = NoFrame
    /\ log = <<>>
    /\ result = Result("init")
    /\ issued = 0
    /\ extract_calls = ZeroCount
    /\ forced_calls = ZeroCount
    /\ failed_calls = ZeroCount
    /\ stored = ZeroCount
    /\ cleared = {}
    /\ nops = 0
    /\ callers = NoCallers
    /\ instances = NoInstances

\* tools.py:66-67: a tool holds its client; no run has been made.
NoRun == [tool |-> "none", status |-> "none", error |-> "", value |-> <<>>,
          truncated |-> FALSE, context |-> FALSE,
          answered |-> [kind |-> "none", mapping |-> <<>>]]
ToolsInit ==
    /\ llm_calls = 0
    /\ tool_result = NoRun

DecoderInit ==
    /\ response = <<>>
    /\ decoded = NotDecoded

\* document_processor.py:14-25: no document yet.  The metadata is the set of
\* its keys, with the value of its error key apart.
NoMetadata == [keys |-> {}, error |-> ""]
NotExtracted ==
    [status |-> "none", error |-> "", file_type |-> "", raw_text |-> <<>>,
     pages |-> <<>>, tables |-> <<>>, metadata |-> NoMetadata,
     extraction_method |-> "", ocr_runs |-> 0]

\* A path that names nothing.
NoSource == [kind |-> "missing", exists |-> FALSE, ext |-> ""]

IngestionIdle ==
    /\ source = NoSource
    /\ extracted = NotExtracted

Init ==
    /\ AgentInit
    /\ DecoderInit
    /\ ToolsInit
    /\ IngestionIdle

\* ----------------------------------------------------------- process_form
\* Mutant: the cache is never consulted.
CacheHit_IgnoresCache(path, force) == FALSE

\* agent.py:168, the cache check.
CacheHit(path, force) == ~force /\ path \in DOMAIN processed_forms

\* document_processor.py:53-56: process raises FileNotFoundError for a path
\* that does not exist, and returns a document otherwise.
DocumentFound(path, fs) == fs

\* Mutant: an entry already present is kept (setdefault in place of the
\* assignment).
CacheStore_KeepsOld(cache, path, form) ==
    [q \in DOMAIN cache \cup {path} |-> IF q \in DOMAIN cache THEN cache[q] ELSE form]

\* Mutant: the new form is not stored.
CacheStore_Forgets(cache, path, form) == cache

\* agent.py:203, self._processed_forms[file_path] = form.
CacheStore(cache, path, form) ==
    [q \in DOMAIN cache \cup {path} |-> IF q = path THEN form ELSE cache[q]]

\* How process_form(path, force) ends, given the file system and the answer
\* to the field-extraction call.
process_form_outcome(path, force, fs, resp) ==
    IF CacheHit(path, force) THEN "hit"
    ELSE IF ~DocumentFound(path, fs) THEN "not_found"
    ELSE IF resp = "raise" THEN "llm_error"
    ELSE IF resp = "unusable" THEN "format_error"
    ELSE "built"

\* The events of process_form(path, force).
process_form_events(path, force, fs, resp) ==
    LET out == process_form_outcome(path, force, fs, resp) IN
    IF out = "hit" THEN <<Event("hit", path, NoForms)>>
    ELSE IF out = "not_found" THEN <<Event("ingest", path, NoForms)>>
    ELSE <<Event("ingest", path, NoForms), Event("extract", path, NoForms)>>

\* The value process_form(path, force) returns (agent.py:170, 205).
process_form_return(path, force, fs, resp) ==
    IF process_form_outcome(path, force, fs, resp) = "hit"
    THEN processed_forms[path]
    ELSE ProcessedForm(next_id, path)

\* Mutant: the increment precedes the call, so that a call that raises is
\* counted too.
CountExtraction_BeforeCall(out) ==
    IF out \in {"built", "llm_error", "format_error"} THEN total_llm_calls + 1
    ELSE total_llm_calls

\* agent.py:181, the increment that follows extraction_tool.run.
CountExtraction(out) ==
    IF out \in {"built", "format_error"} THEN total_llm_calls + 1 ELSE total_llm_calls

\* agent.py:151-205 on the agent's state, with the bookkeeping of the calls
\* it issues.
process_form(path, force, fs, resp) ==
    LET out == process_form_outcome(path, force, fs, resp) IN
    /\ processed_forms' =
          IF out = "built"
          THEN CacheStore(processed_forms, path, ProcessedForm(next_id, path))
          ELSE processed_forms
    /\ total_llm_calls' = CountExtraction(out)
    /\ next_id' = IF out = "built" THEN next_id + 1 ELSE next_id
    /\ issued' = IF out \in {"built", "llm_error", "format_error"} THEN issued + 1 ELSE issued
    /\ extract_calls' =
          IF out \in {"built", "llm_error", "format_error"}
          THEN [extract_calls EXCEPT ![path] = @ + 1] ELSE extract_calls
    /\ forced_calls' =
          IF force THEN [forced_calls EXCEPT ![path] = @ + 1] ELSE forced_calls
    /\ failed_calls' =
          IF out \in {"llm_error", "format_error"} /\ ~force
          THEN [failed_calls EXCEPT ![path] = @ + 1] ELSE failed_calls
    /\ stored' = IF out = "built" THEN [stored EXCEPT ![path] = next_id] ELSE stored
    /\ cleared' = cleared

ProcessFormError(out) ==
    IF out = "not_found" THEN "FileNotFoundError"
    ELSE IF out = "format_error" THEN "FormatError"
    ELSE "LLMError"

\* A top-level call process_form(path, force), the file system and the
\* extraction tool answering fs and resp.
ProcessFormCallOf(path, force, fs, resp) ==
    LET out == process_form_outcome(path, force, fs, resp)
        call == [Result("process_form") EXCEPT !.path = path, !.force = force]
    IN
    /\ pc = "idle" /\ nops < MaxOps
    /\ process_form(path, force, fs, resp)
    /\ log' = process_form_events(path, force, fs, resp)
    /\ result' =
          IF out \in {"hit", "built"}
          THEN [call EXCEPT !.type = "form",
                            !.forms = <<process_form_return(path, force, fs, resp)>>]
          ELSE Raised(call, ProcessFormError(out))
    /\ nops' = nops + 1
    /\ pc' = "idle"
    /\ wf' = NoFrame

\* A top-level call of process_form.
ProcessFormCall ==
    \E path \in Paths, force \in BOOLEAN, fs \in FileSystems, resp \in AnswerResponses :
        ProcessFormCallOf(path, force, fs, resp)

\* ------------------------------------------------ ask, summarize, analyze
\* agent.py:250-255, 303-308, 348-353: tool.run(...) and then
\* self.total_llm_calls += 1.  The call is issued whatever it answers; the
\* increment is reached only when run returns (also when what it returns
\* makes the message of agent.py:257 raise).
tool_call(resp) ==
    /\ issued' = issued + 1
    /\ total_llm_calls' = IF resp = "raise" THEN total_llm_calls ELSE total_llm_calls + 1

\* Mutant: ask puts the form it is given into the cache.
ask_Caching(form, resp) ==
    /\ tool_call(resp)
    /\ processed_forms' = CacheStore(processed_forms, form.file_path, form)
    /\ UNCHANGED <<next_id, extract_calls, forced_calls, failed_calls, stored, cleared>>

\* agent.py:219-259.
ask(form, resp) ==
    /\ tool_call(resp)
    /\ UNCHANGED <<processed_forms, next_id, extract_calls, forced_calls, failed_calls,
                   stored, cleared>>

\* agent.py:278-310.
summarize(form, resp) ==
    /\ tool_call(resp)
    /\ UNCHANGED <<processed_forms, next_id, extract_calls, forced_calls, failed_calls,
                   stored, cleared>>

\* agent.py:312-355.
analyze(forms, resp) ==
    /\ tool_call(resp)
    /\ UNCHANGED <<processed_forms, next_id, extract_calls, forced_calls, failed_calls,
                   stored, cleared>>

\* agent.py:261-276.
ask_multiple(forms, resp) == analyze(forms, resp)

\* agent.py:357-376.
compare(form1, form2, resp) == analyze(<<form1, form2>>, resp)

ask_events(form) == <<Event("qa", form.file_path, <<form>>)>>
summarize_events(form) == <<Event("summarize", form.file_path, <<form>>)>>
analyze_events(forms) == <<Event("analyze", "", forms)>>

ToolResult(op, type, resp) ==
    IF resp = "ok" THEN Returned(op, type, NoForms)
    ELSE IF resp = "unusable" THEN Raised(Result(op), "FormatError")
    ELSE Raised(Result(op), "LLMError")

AskCall ==
    /\ pc = "idle" /\ nops < MaxOps
    /\ \E form \in KnownForms, resp \in AnswerResponses :
          /\ ask(form, resp)
          /\ log' = ask_events(form)
          /\ result' = ToolResult("ask", "QAResult", resp)
    /\ nops' = nops + 1
    /\ pc' = "idle"
    /\ wf' = NoFrame

SummarizeCall ==
    /\ pc = "idle" /\ nops < MaxOps
    /\ \E form \in KnownForms, resp \in ToolResponses :
          /\ summarize(form, resp)
          /\ log' = summarize_events(form)
          /\ result' = ToolResult("summarize", "SummaryResult", resp)
    /\ nops' = nops + 1
    /\ pc' = "idle"
    /\ wf' = NoFrame

AnalyzeCall ==
    /\ pc = "idle" /\ nops < MaxOps
    /\ \E forms \in KnownFormLists, resp \in ToolResponses :
          /\ analyze(forms, resp)
          /\ log' = analyze_events(forms)
          /\ result' = ToolResult("analyze", "AnalysisResult", resp)
    /\ nops' = nops + 1
    /\ pc' = "idle"
    /\ wf' = NoFrame

AskMultipleCall ==
    /\ pc = "idle" /\ nops < MaxOps
    /\ \E forms \in KnownFormLists, resp \in ToolResponses :
          /\ ask_multiple(forms, resp)
          /\ log' = analyze_events(forms)
          /\ result' = ToolResult("ask_multiple", "AnalysisResult", resp)
    /\ nops' = nops + 1
    /\ pc' = "idle"
    /\ wf' = NoFrame

CompareCall ==
    /\ pc = "idle" /\ nops < MaxOps
    /\ \E form1 \in KnownForms, form2 \in KnownForms, resp \in ToolResponses :
          /\ compare(form1, form2, resp)
          /\ log' = analyze_events(<<form1, form2>>)
          /\ result' = ToolResult("compare", "AnalysisResult", resp)
    /\ nops' = nops + 1
    /\ pc' = "idle"
    /\ wf' = NoFrame

\* ------------------------------------------------- get_stats, clear_cache
\* Mutant: cached_forms reports the forms built, not the forms held.
get_stats_CountsBuilt ==
    [total_llm_calls |-> total_llm_calls,
     cached_forms |-> next_id - 1,
     cached_form_paths |-> DOMAIN processed_forms]

\* agent.py:557-563.  cached_form_paths is the key list of the cache; its
\* order is not modelled.
get_stats ==
    [total_llm_calls |-> total_llm_calls,
     cached_forms |-> Cardinality(DOMAIN processed_forms),
     cached_form_paths |-> DOMAIN processed_forms]

GetStatsCall ==
    /\ pc = "idle"
    /\ result' = [Returned("get_stats", "stats", NoForms) EXCEPT !.stats = get_stats]
    /\ log' = <<>>
    /\ nops' = nops
    /\ pc' = "idle"
    /\ wf' = NoFrame
    /\ UNCHANGED <<agent, ghost>>

\* Mutant: clearing resets the statistics too.
clear_cache_ResetsCounter ==
    /\ processed_forms' = EmptyCache
    /\ total_llm_calls' = 0
    /\ UNCHANGED <<next_id, issued>>
    /\ extract_calls' = ZeroCount
    /\ forced_calls' = ZeroCount
    /\ failed_calls' = ZeroCount
    /\ stored' = ZeroCount
    /\ cleared' = DOMAIN processed_forms

\* agent.py:565-567.  A cache lifetime ends here: the per-lifetime
\* bookkeeping starts again.
clear_cache ==
    /\ processed_forms' = EmptyCache
    /\ UNCHANGED <<total_llm_calls, next_id, issued>>
    /\ extract_calls' = ZeroCount
    /\ forced_calls' = ZeroCount
    /\ failed_calls' = ZeroCount
    /\ stored' = ZeroCount
    /\ cleared' = DOMAIN processed_forms

ClearCacheCall ==
    /\ pc = "idle"
    /\ clear_cache
    /\ result' = Returned("clear_cache", "", NoForms)
    /\ log' = <<>>
    /\ nops' = nops
    /\ pc' = "idle"
    /\ wf' = NoFrame

\* ------------------------------------------- process_forms, run_workflow
\* agent.py:217 and agent.py:449: the list comprehension over file_paths
\* starts.
ProcessFormsBegin ==
    /\ pc = "idle" /\ nops < MaxOps
    /\ \E paths \in PathLists : wf' = Frame("process_forms", paths)
    /\ pc' = "processing"
    /\ log' = <<>>
    /\ result' = Running("process_forms")
    /\ nops' = nops + 1
    /\ UNCHANGED <<agent, ghost>>

RunWorkflowBegin ==
    /\ pc = "idle" /\ nops < MaxOps
    /\ \E paths \in PathLists : wf' = Frame("run_workflow", paths)
    /\ pc' = "processing"
    /\ log' = <<>>
    /\ result' = Running("run_workflow")
    /\ nops' = nops + 1
    /\ UNCHANGED <<agent, ghost>>

\* Mutant: the classification does not wait for the paths to be processed.
AllProcessed_Early(frame) == TRUE

\* agent.py:217, 449: the comprehension has handled every path, so that
\* process_forms returns (and run_workflow goes on to classify).
AllProcessed(frame) == Len(frame.forms) = Len(frame.paths)

\* Mutant: the comprehension walks the list from its end.
NextPath_Backwards(paths, done) == paths[Len(paths) - done]

\* The path the comprehension of agent.py:217 handles next: the one after
\* those already processed.
NextPath(paths, done) == paths[done + 1]

\* agent.py:217, one iteration: self.process_form(path), without force.  An
\* exception leaves the comprehension and the method that runs it.
BatchProcessStep ==
    /\ pc = "processing" /\ Len(wf.forms) < Len(wf.paths)
    /\ \E fs \in FileSystems, resp \in AnswerResponses :
          LET path == NextPath(wf.paths, Len(wf.forms))
              out == process_form_outcome(path, FALSE, fs, resp)
          IN
          /\ process_form(path, FALSE, fs, resp)
          /\ log' = log \o process_form_events(path, FALSE, fs, resp)
          /\ IF out \in {"hit", "built"}
             THEN /\ wf' = [wf EXCEPT !.forms =
                                 Append(@, process_form_return(path, FALSE, fs, resp))]
                  /\ UNCHANGED <<pc, result>>
             ELSE /\ pc' = "idle"
                  /\ result' = Raised(result, ProcessFormError(out))
                  /\ wf' = wf
    /\ nops' = nops

\* agent.py:217, process_forms returns the list.
ProcessFormsReturn ==
    /\ pc = "processing" /\ wf.kind = "process_forms"
    /\ AllProcessed(wf)
    /\ pc' = "idle"
    /\ result' = Returned("process_forms", "forms", wf.forms)
    /\ UNCHANGED <<agent, ghost, wf, log, nops>>

\* Mutant: the classification call is left out of the statistics.
analyze_task_Uncounted(resp) ==
    /\ issued' = issued + 1
    /\ UNCHANGED <<total_llm_calls, processed_forms, next_id, extract_calls, forced_calls,
                   failed_calls, stored, cleared>>

\* agent.py:548-551, _analyze_task: one generate_structured call, then the
\* increment, then the mapping is returned.
analyze_task(resp) ==
    /\ issued' = issued + 1
    /\ total_llm_calls' = IF resp = "raise" THEN total_llm_calls ELSE total_llm_calls + 1
    /\ UNCHANGED <<processed_forms, next_id, extract_calls, forced_calls, failed_calls,
                   stored, cleared>>

\* agent.py:452, after process_forms has returned.
WorkflowClassify ==
    /\ pc = "processing" /\ wf.kind = "run_workflow"
    /\ AllProcessed(wf)
    /\ \E resp \in ClassifyResponses :
          /\ analyze_task(resp)
          /\ IF resp = "raise"
             THEN /\ pc' = "idle"
                  /\ result' = Raised(result, "LLMError")
                  /\ wf' = wf
             ELSE /\ pc' = "dispatch"
                  /\ wf' = [wf EXCEPT !.task_type = resp]
                  /\ result' = result
    /\ log' = Append(log, Event("classify", "", wf.forms))
    /\ nops' = nops

\* Mutant: a category outside the four labels is an error, not the general
\* fallback.
Branch_NoFallback(task_type) ==
    IF task_type = "extract" THEN "extraction"
    ELSE IF task_type = "qa" THEN "qa"
    ELSE IF task_type = "summarize" THEN "summarization"
    ELSE IF task_type = "analyze" THEN "analysis"
    ELSE "KeyError"

\* agent.py:455-503: the branch the if / elif chain over
\* task_analysis["task_type"] takes.  A mapping without the key raises
\* KeyError at the first comparison.
Branch(task_type) ==
    IF task_type = "nokey" THEN "KeyError"
    ELSE IF task_type = "extract" THEN "extraction"
    ELSE IF task_type = "qa" THEN "qa"
    ELSE IF task_type = "summarize" THEN "summarization"
    ELSE IF task_type = "analyze" THEN "analysis"
    ELSE "general"

\* Mutant: a qa task always goes to the multi-document analysis.
QARoute_AlwaysMultiple(ndocs) == "ask_multiple"

\* agent.py:463-466: which method answers a qa task.
QARoute(ndocs) == IF ndocs = 1 THEN "ask" ELSE "ask_multiple"

WorkflowKeyError ==
    /\ pc = "dispatch" /\ Branch(wf.task_type) = "KeyError"
    /\ pc' = "idle"
    /\ result' = Raised(result, "KeyError")
    /\ UNCHANGED <<agent, ghost, wf, log, nops>>

\* agent.py:455-460.
WorkflowExtract ==
    /\ pc = "dispatch" /\ Branch(wf.task_type) = "extraction"
    /\ pc' = "idle"
    /\ result' = Returned("run_workflow", "extraction", wf.forms)
    /\ UNCHANGED <<agent, ghost, wf, log, nops>>

\* agent.py:462-475.
WorkflowQA ==
    /\ pc = "dispatch" /\ Branch(wf.task_type) = "qa"
    /\ \E resp \in AnswerResponses :
          /\ IF QARoute(Len(wf.forms)) = "ask"
             THEN /\ ask(wf.forms[1], resp)
                  /\ log' = log \o ask_events(wf.forms[1])
             ELSE /\ resp \in ToolResponses
                  /\ ask_multiple(wf.forms, resp)
                  /\ log' = log \o analyze_events(wf.forms)
          /\ result' = IF resp = "ok"
                       THEN Returned("run_workflow", "qa", NoForms)
                       ELSE Raised(result, IF resp = "unusable" THEN "FormatError"
                                           ELSE "LLMError")
    /\ pc' = "idle"
    /\ UNCHANGED <<wf, nops>>

\* agent.py:478 and agent.py:505, one iteration of
\* [self.summarize(f) for f in forms].
WorkflowSummarizeStep ==
    /\ pc = "dispatch" /\ Branch(wf.task_type) \in {"summarization", "general"}
    /\ wf.nsum < Len(wf.forms)
    /\ \E resp \in ToolResponses :
          LET form == wf.forms[wf.nsum + 1] IN
          /\ summarize(form, resp)
          /\ log' = log \o summarize_events(form)
          /\ IF resp = "ok"
             THEN /\ wf' = [wf EXCEPT !.nsum = @ + 1]
                  /\ UNCHANGED <<pc, result>>
             ELSE /\ pc' = "idle"
                  /\ result' = Raised(result, "LLMError")
                  /\ wf' = wf
    /\ nops' = nops

\* agent.py:479-490 and agent.py:506-511: the summaries are returned, one
\* per form and in the forms' order; the general result holds the forms too.
WorkflowSummarizeReturn ==
    /\ pc = "dispatch" /\ Branch(wf.task_type) \in {"summarization", "general"}
    /\ wf.nsum = Len(wf.forms)
    /\ pc' = "idle"
    /\ result' =
          [Returned("run_workflow", Branch(wf.task_type),
                    IF Branch(wf.task_type) = "general" THEN wf.forms ELSE NoForms)
             EXCEPT !.summaries = [i \in 1..wf.nsum |-> wf.forms[i].file_path]]
    /\ UNCHANGED <<agent, ghost, wf, log, nops>>

\* agent.py:492-501.
WorkflowAnalyze ==
    /\ pc = "dispatch" /\ Branch(wf.task_type) = "analysis"
    /\ \E resp \in ToolResponses :
          /\ analyze(wf.forms, resp)
          /\ log' = log \o analyze_events(wf.forms)
          /\ result' = IF resp = "ok"
                       THEN Returned("run_workflow", "analysis", NoForms)
                       ELSE Raised(result, "LLMError")
    /\ pc' = "idle"
    /\ UNCHANGED <<wf, nops>>

\* ------------------------------------------ the structured-generation decode
\* The response text, abstracted to tokens: the two braces, "m" for the text
\* of one member ("key": value), "1" for the text of a scalar JSON value,
\* "x" for a stretch of any other text, "\n" for a newline (the white space
\* of the model), "fence" for a triple-backtick marker.
Chars == {"{", "}", "m", "1", "x", "\n", "fence"}
Responses == SeqsUpTo(Chars, MaxLen)

Min(S) == CHOOSE x \in S : \A y \in S : x <= y
Max(S) == CHOOSE x \in S : \A y \in S : x >= y
IndexOf(s, c) == {i \in 1..Len(s) : s[i] = c}
IsSpace(c) == c = "\n"
NotSpace(c) == ~IsSpace(c)

\* llm_client.py:155: str.strip() removes the leading and the trailing white
\* space.
strip(s) ==
    LET ink == {i \in 1..Len(s) : NotSpace(s[i])}
    IN IF ink = {} THEN <<>> ELSE SubSeq(s, Min(ink), Max(ink))

\* llm_client.py:158.
startswith_fence(content) == Len(content) >= 1 /\ content[1] = "fence"

\* llm_client.py:159-160: "\n".join(content.split("\n")[1:-1]): what lies
\* between the first and the last newline; nothing when there are fewer than
\* two newlines.
lines_1_to_last(content) ==
    LET nl == IndexOf(content, "\n")
    IN IF Cardinality(nl) < 2 THEN <<>>
       ELSE SubSeq(content, Min(nl) + 1, Max(nl) - 1)

\* json.loads (llm_client.py:163, 169): the whole text must be one JSON
\* value, white space allowed around it and between its tokens.  The values
\* the tokens can spell are the empty object, the object of one member and
\* the scalar.
json_loads(s) ==
    LET t == SelectSeq(s, NotSpace)
    IN IF t = <<"{", "}">> THEN [ok |-> TRUE, value |-> "{}"]
       ELSE IF t = <<"{", "m", "}">> THEN [ok |-> TRUE, value |-> "{m}"]
       ELSE IF t = <<"1">> THEN [ok |-> TRUE, value |-> "1"]
       ELSE [ok |-> FALSE, value |-> ""]

\* llm_client.py:167: re.search(r'\{[\s\S]*\}', content): the leftmost "{"
\* and, the star being greedy, everything up to the last "}" of the text.
json_match(content) ==
    LET open == IndexOf(content, "{")
        close == IndexOf(content, "}")
    IN IF open # {} /\ close # {} /\ Min(open) < Max(close)
       THEN [found |-> TRUE, group |-> SubSeq(content, Min(open), Max(close))]
       ELSE [found |-> FALSE, group |-> <<>>]

\* llm_client.py:154-170: the decode of a response text.  The json.loads of
\* line 169 runs inside the except clause, so its JSONDecodeError is not
\* caught; the ValueError of line 170 is raised only when nothing matched.
\* The ValueError's message holds the parse error and the content; the
\* JSONDecodeError is the one of the retry and holds (as its doc) the span.
generate_structured(text) ==
    LET stripped == strip(text)
        content == IF startswith_fence(stripped) THEN lines_1_to_last(stripped)
                   ELSE stripped
        strict == json_loads(content)
        found == json_match(content)
        retry == json_loads(found.group)
    IN IF strict.ok
       THEN [status |-> "returned", content |-> content, value |-> strict.value, error |-> "",
             text |-> <<>>]
       ELSE IF found.found
       THEN IF retry.ok
            THEN [status |-> "returned", content |-> content, value |-> retry.value, error |-> "",
                  text |-> <<>>]
            ELSE [status |-> "raised", content |-> content, value |-> "",
                  error |-> "JSONDecodeError", text |-> found.group]
       ELSE [status |-> "raised", content |-> content, value |-> "", error |-> "ValueError",
             text |-> content]

\* One call of generate_structured on the response received.
GenerateStructured ==
    /\ decoded.status = "none"
    /\ decoded' = generate_structured(response)
    /\ UNCHANGED response
    /\ UNCHANGED <<orchestrator, toolbox, ingestion>>

\* The decode taken alone: any response text of the bound, decoded once.
InitDecode ==
    /\ AgentInit
    /\ response \in Responses
    /\ decoded = NotDecoded
    /\ ToolsInit
    /\ IngestionIdle

NextDecode == GenerateStructured

SpecDecode == InitDecode /\ [][NextDecode]_vars

\* ------------------------------------------------- the capability tools
\* What a tool is run on: the document's raw text (empty, within the
\* character budget of the prompt, or longer than it) and whether extracted
\* fields come with it.
Documents == [text : {"empty", "short", "long"}, fields : BOOLEAN]

\* The keys of the mapping each tool reads, in the order of its result.
ToolNames == {"extraction", "qa", "summary", "analysis"}
ToolKeys ==
    [extraction |-> <<"fields", "form_type", "confidence", "reasoning">>,
     qa |-> <<"answer", "confidence", "evidence", "reasoning">>,
     summary |-> <<"summary", "key_points", "form_type", "important_values">>,
     analysis |-> <<"answer", "insights", "comparisons", "statistics">>]

\* The default each tool passes to result.get for a key (tools.py:172-177,
\* 277-282, 384-389, 499-504); form_type of the extraction has none, so
\* dict.get answers None.
ToolDefaults ==
    [extraction |-> <<"{}", "None", "0.0", "''">>,
     qa |-> <<"'Unable to determine'", "0.0", "[]", "''">>,
     summary |-> <<"''", "[]", "'unknown'", "{}">>,
     analysis |-> <<"''", "[]", "{}", "{}">>]

\* What the mapping holds for a key: nothing, null, or a value.
Entries == {"absent", "null", "given"}
MappingsOf(tool) == [1..Len(ToolKeys[tool]) -> Entries]

\* What generate_structured answers to a tool: it raises, it returns a value
\* that is no mapping, or it returns a mapping.
LLMOutcomes(tool) ==
    {[kind |-> "raise", mapping |-> <<>>], [kind |-> "nonmapping", mapping |-> <<>>]}
        \cup {[kind |-> "mapping", mapping |-> m] : m \in MappingsOf(tool)}

\* Mutant: a key the mapping omits is left undefined in the result.
get_NoDefault(mapping, key, default) ==
    IF mapping[key] = "absent" THEN "None"
    ELSE IF mapping[key] = "null" THEN "None"
    ELSE "given"

\* dict.get(key, default): the default only for a key the mapping omits; a
\* key held with null answers None.
get(mapping, key, default) ==
    IF mapping[key] = "absent" THEN default
    ELSE IF mapping[key] = "null" THEN "None"
    ELSE "given"

\* Mutant: a failed call is made a second time.
CallsOfRun_Retry(outcome) == IF outcome.kind = "raise" THEN 2 ELSE 1

\* tools.py:170, 275, 382, 497: the generate_structured calls one run makes.
CallsOfRun(outcome) == 1

\* tools.py:172-177, 277-282, 384-389, 499-504: the typed result built from
\* what generate_structured answered.
TypedResult(tool, outcome) ==
    IF outcome.kind = "raise"
    THEN [NoRun EXCEPT !.tool = tool, !.status = "raised", !.error = "LLMError"]
    ELSE IF outcome.kind = "nonmapping"
    THEN [NoRun EXCEPT !.tool = tool, !.status = "raised", !.error = "AttributeError"]
    ELSE [NoRun EXCEPT !.tool = tool, !.status = "returned",
                       !.value = [k \in 1..Len(ToolKeys[tool]) |->
                                     get(outcome.mapping, k, ToolDefaults[tool][k])]]

\* One run of a tool: the prompt is built (the text cut to the budget, the
\* fields added when there are some), generate_structured is called, the
\* result is built.
run(tool, truncated, context, outcome) ==
    /\ llm_calls < MaxRuns
    /\ llm_calls' = llm_calls + CallsOfRun(outcome)
    /\ tool_result' = [TypedResult(tool, outcome) EXCEPT !.truncated = truncated,
                                                         !.context = context,
                                                         !.answered = outcome]
    /\ UNCHANGED <<orchestrator, decoder, ingestion>>

\* tools.py:127-177.
FieldExtractionRun ==
    \E doc \in Documents, outcome \in LLMOutcomes("extraction") :
        run("extraction", doc.text = "long", FALSE, outcome)

\* tools.py:219-282.
QuestionAnsweringRun ==
    \E doc \in Documents, outcome \in LLMOutcomes("qa") :
        run("qa", doc.text = "long", doc.fields, outcome)

\* tools.py:322-389.
SummarizationRun ==
    \E doc \in Documents, outcome \in LLMOutcomes("summary") :
        run("summary", doc.text = "long", doc.fields, outcome)

\* tools.py:437-504: n documents, one of them (if any) perhaps longer than
\* the preview; the fields of each always go into the prompt.
CrossDocumentAnalysisRun ==
    \E n \in 0..MaxDocs, long \in BOOLEAN, outcome \in LLMOutcomes("analysis") :
        /\ long => n > 0
        /\ run("analysis", long, TRUE, outcome)

InitTools ==
    /\ AgentInit
    /\ DecoderInit
    /\ ToolsInit
    /\ IngestionIdle

NextTools ==
    \/ FieldExtractionRun
    \/ QuestionAnsweringRun
    \/ SummarizationRun
    \/ CrossDocumentAnalysisRun

SpecTools == InitTools /\ [][NextTools]_vars

\* ------------------------------------------------------------ ingestion
\* The extensions of the paths, as spelled.
Extensions ==
    {".pdf", ".PDF", ".png", ".jpg", ".JPG", ".jpeg", ".tiff", ".tif", ".bmp",
     ".txt", ".text", ".json", ".JSON", ".csv", ".html", ".htm", ".md",
     ".markdown", ".docx", ""}

\* str.lower() on the spellings above.
lower(ext) ==
    CASE ext = ".PDF" -> ".pdf"
      [] ext = ".JPG" -> ".jpg"
      [] ext = ".JSON" -> ".json"
      [] OTHER -> ext

\* document_processor.py:71-79.
type_map ==
    [e \in {".pdf", ".png", ".jpg", ".jpeg", ".tiff", ".tif", ".bmp", ".txt",
            ".text", ".json", ".csv", ".html", ".htm", ".md", ".markdown"} |->
        CASE e = ".pdf" -> "pdf"
          [] e = ".png" -> "png"
          [] e = ".jpg" -> "jpg"
          [] e = ".jpeg" -> "jpeg"
          [] e \in {".tiff", ".tif"} -> "tiff"
          [] e = ".bmp" -> "bmp"
          [] e \in {".txt", ".text"} -> "txt"
          [] e = ".json" -> "json"
          [] e = ".csv" -> "csv"
          [] e \in {".html", ".htm"} -> "html"
          [] e \in {".md", ".markdown"} -> "markdown"]

\* Mutant: the extension is looked up as spelled, and the default tag is
\* that of the JSON files.
detect_file_type_AsSpelled(ext) ==
    IF ext \in DOMAIN type_map THEN type_map[ext] ELSE "json"

\* document_processor.py:67-81: type_map.get(ext, "txt") on the lower-cased
\* suffix.
detect_file_type(ext) ==
    IF lower(ext) \in DOMAIN type_map THEN type_map[lower(ext)] ELSE "txt"

ImageTypes == {"png", "jpg", "jpeg", "tiff", "bmp"}
PdfExtensions == {e \in Extensions : detect_file_type(e) = "pdf"}
ImageExtensions == {e \in Extensions : detect_file_type(e) \in ImageTypes}
TextExtensions == Extensions \ (PdfExtensions \cup ImageExtensions)

\* The JSON values a file can hold.  An object is its keys in order with
\* their values; an element of an array is an object or something else.
JsonValues == {"1", "null"}
KeyOrders == {<<>>, <<"a">>, <<"b">>, <<"a", "b">>, <<"b", "a">>}
JsonObjects ==
    UNION {{[isobj |-> TRUE, keys |-> ko, vals |-> v] : v \in [1..Len(ko) -> JsonValues]} :
              ko \in KeyOrders}
NonObject == [isobj |-> FALSE, keys |-> <<>>, vals |-> <<>>]
JsonElements == JsonObjects \cup {NonObject}
JsonBodies ==
    {[kind |-> k, items |-> <<>>] : k \in {"bad", "object", "scalar"}}
        \cup {[kind |-> "array", items |-> a] : a \in SeqsUpTo(JsonElements, MaxRows)}

\* The content of a CSV file, as tokens: "x" for a character of a field,
\* the comma, the newline.  A field of the file may be longer than the limit
\* of the csv module (131072 characters).
CsvChars == {"x", ",", "\n"}
CsvBodies == SeqsUpTo(CsvChars, MaxCsvLen)

\* The content of a text file: its characters, what it is as JSON.
TextBodies ==
    {[content |-> c, oversize |-> o, json |-> [kind |-> "bad", items |-> <<>>]] :
        c \in CsvBodies, o \in BOOLEAN}
    \cup {[content |-> <<"x">>, oversize |-> FALSE, json |-> j] : j \in JsonBodies}

\* The files a path can name, with what reading them meets.
MissingSources == {[kind |-> "missing", exists |-> FALSE, ext |-> e] : e \in Extensions}
TextSources ==
    {[kind |-> "text", exists |-> TRUE, ext |-> e, readable |-> TRUE, body |-> b] :
        e \in TextExtensions, b \in TextBodies}
    \cup {[kind |-> "text", exists |-> TRUE, ext |-> e, readable |-> FALSE,
           body |-> [content |-> <<"x">>, oversize |-> FALSE,
                     json |-> [kind |-> "bad", items |-> <<>>]]] : e \in TextExtensions}
PageTexts == {"", "t"}
PdfSources ==
    UNION {[kind : {"pdf"}, exists : {TRUE}, ext : PdfExtensions,
            has_pdfplumber : BOOLEAN, ocr_enabled : BOOLEAN,
            page_texts : {p}, has_tables : BOOLEAN,
            fails_at : 0..(Len(p) + 1),
            ocr : {"ok", "unavailable", "raise"}] : p \in SeqsUpTo(PageTexts, MaxPages)}
ImageSources ==
    [kind : {"image"}, exists : {TRUE}, ext : ImageExtensions,
     ocr_enabled : BOOLEAN, has_ocr_libs : BOOLEAN,
     image : {"ok", "corrupt"}, ocr : {"ok", "raise"}]
Sources == MissingSources \cup TextSources \cup PdfSources \cup ImageSources

Document(file_type) == [NotExtracted EXCEPT !.status = "returned", !.file_type = file_type]
IngestError(error) == [NotExtracted EXCEPT !.status = "raised", !.error = error]

Range(s) == {s[i] : i \in 1..Len(s)}

\* str(value) of a JSON value.
str(v) == IF v = "null" THEN "None" ELSE v

\* dict.get(h, "") on a JSON object.
row_get(row, h) ==
    LET at == {i \in 1..Len(row.keys) : row.keys[i] = h}
    IN IF at = {} THEN "" ELSE row.vals[CHOOSE i \in at : TRUE]

\* Mutant: every row is rendered by its own keys.
json_table_OwnKeys(data) ==
    <<data[1].keys>> \o
        [i \in 1..Len(data) |-> [j \in 1..Len(data[i].keys) |-> str(data[i].vals[j])]]

\* document_processor.py:223-226: the header of the first object, then one
\* row per element.
json_table(data) ==
    LET headers == data[1].keys
    IN <<headers>> \o
          [i \in 1..Len(data) |-> [j \in 1..Len(headers) |-> str(row_get(data[i], headers[j]))]]

\* document_processor.py:219-229: the tables of a JSON file.  An element
\* that is no object makes row.get raise, and the bare except drops the
\* table with the error.
json_tables(json) ==
    IF /\ json.kind = "array" /\ Len(json.items) > 0 /\ json.items[1].isobj
       /\ \A i \in 1..Len(json.items) : json.items[i].isobj
    THEN <<json_table(json.items)>>
    ELSE <<>>

\* The pieces of s between the occurrences of sep (str.split).
RECURSIVE split(_, _)
split(s, sep) ==
    IF IndexOf(s, sep) = {} THEN <<s>>
    ELSE LET i == Min(IndexOf(s, sep))
         IN <<SubSeq(s, 1, i - 1)>> \o split(SubSeq(s, i + 1, Len(s)), sep)

\* The lines csv.reader reads from the content: a newline ends a line, and
\* what follows the last newline is a line if it is not empty.
csv_lines(content) ==
    LET pieces == split(content, "\n")
    IN IF pieces[Len(pieces)] = <<>> THEN SubSeq(pieces, 1, Len(pieces) - 1) ELSE pieces

\* document_processor.py:214-217: [row for row in csv.reader(...)]: one row
\* per line, its fields the pieces between the commas; a blank line is a
\* row of no field.
csv_table(content) ==
    LET lines == csv_lines(content)
    IN [i \in 1..Len(lines) |-> IF lines[i] = <<>> THEN <<>> ELSE split(lines[i], ",")]

\* document_processor.py:199-239.
process_text(src) ==
    LET file_type == detect_file_type(src.ext)
        raw == strip(src.body.content)
    IN IF ~src.readable THEN IngestError("OSError")
       ELSE IF file_type = "csv" /\ src.body.oversize /\ "x" \in Range(src.body.content)
       THEN IngestError("csv.Error")
       ELSE [Document(file_type) EXCEPT
                !.raw_text = raw,
                !.pages = <<src.body.content>>,
                !.tables = IF file_type = "csv" THEN <<csv_table(src.body.content)>>
                           ELSE IF file_type = "json" THEN json_tables(src.body.json)
                           ELSE <<>>,
                !.metadata = [keys |-> {"char_count", "line_count"}, error |-> ""],
                !.extraction_method = "text"]

\* The text native extraction accumulates for the first k pages: a page
\* delimiter per page, then the page's text if it has some.
RECURSIVE native_text(_, _)
native_text(page_texts, k) ==
    IF k = 0 THEN <<>>
    ELSE native_text(page_texts, k - 1) \o
            (IF page_texts[k] = "" THEN <<"delimiter">> ELSE <<"delimiter", page_texts[k]>>)

\* document_processor.py:140-157: the text and the pages OCR reads from the
\* n page images.
RECURSIVE ocr_text(_)
ocr_text(n) == IF n = 0 THEN <<>> ELSE ocr_text(n - 1) \o <<"ocr_delimiter", "o">>
ocr_pages(n) == [i \in 1..n |-> "o"]

\* document_processor.py:83-138.  The pages before the one that fails have
\* been read when the exception comes; _ocr_pdf answers ("", []) when its
\* libraries are missing, and that too is assigned and marked ocr_used.
process_pdf(src) ==
    LET n == Len(src.page_texts)
        opened == src.fails_at >= 1
        k == IF src.fails_at > n THEN n ELSE IF opened THEN src.fails_at - 1 ELSE 0
        raised == src.fails_at <= n
        text == native_text(src.page_texts, k)
        pages == SubSeq(src.page_texts, 1, k)
        tables == IF src.has_tables THEN [i \in 1..k |-> "table"] ELSE <<>>
        keys == IF opened THEN {"page_count", "pdf_info"} ELSE {}
        empty == strip(text) = <<>>
        \* the call of line 119, inside the try
        first == ~raised /\ empty /\ src.ocr_enabled
        first_raised == first /\ src.ocr = "raise"
        \* the call of line 126, inside the except
        second == (raised \/ first_raised) /\ src.ocr_enabled
        assigned == (first \/ second) /\ src.ocr # "raise"
        error == IF raised THEN "native" ELSE IF first_raised THEN "ocr" ELSE ""
        ocr_n == IF src.ocr = "ok" THEN n ELSE 0
    IN IF ~src.has_pdfplumber THEN IngestError("ImportError")
       ELSE [Document("pdf") EXCEPT
                !.raw_text = IF assigned THEN ocr_text(ocr_n) ELSE text,
                !.pages = IF assigned THEN ocr_pages(ocr_n) ELSE pages,
                !.tables = tables,
                !.metadata = [keys |-> keys \cup (IF error # "" THEN {"error"} ELSE {})
                                           \cup (IF assigned THEN {"ocr_used"} ELSE {}),
                              error |-> error],
                !.extraction_method = IF assigned THEN "ocr" ELSE "pdfplumber",
                !.ocr_runs = (IF first THEN 1 ELSE 0) + (IF second THEN 1 ELSE 0)]

\* document_processor.py:159-197.
process_image(src) ==
    LET file_type == detect_file_type(src.ext)
    IN IF ~src.ocr_enabled
       THEN [Document(file_type) EXCEPT
                !.metadata = [keys |-> {"error"}, error |-> "OCR disabled"]]
       ELSE IF ~src.has_ocr_libs THEN IngestError("ImportError")
       ELSE IF src.image = "corrupt" THEN IngestError("UnidentifiedImageError")
       ELSE IF src.ocr = "raise" THEN IngestError("TesseractError")
       ELSE [Document(file_type) EXCEPT
                !.raw_text = <<"o">>,
                !.pages = <<"o">>,
                !.metadata = [keys |-> {"image_size", "image_mode", "ocr_confidence"},
                              error |-> ""],
                !.extraction_method = "ocr",
                !.ocr_runs = 1]

\* Mutant: the format is detected before the existence check, and a path
\* that names nothing is read as an empty text file.
process_NoExistenceCheck(src) ==
    IF ~src.exists
    THEN [Document(detect_file_type(src.ext)) EXCEPT !.extraction_method = "text"]
    ELSE IF src.kind = "pdf" THEN process_pdf(src)
    ELSE IF src.kind = "image" THEN process_image(src)
    ELSE process_text(src)

\* document_processor.py:43-65.
process(src) ==
    IF ~src.exists THEN IngestError("FileNotFoundError")
    ELSE IF detect_file_type(src.ext) = "pdf" THEN process_pdf(src)
    ELSE IF detect_file_type(src.ext) \in ImageTypes THEN process_image(src)
    ELSE process_text(src)

\* One call of DocumentProcessor.process on the source.
Process ==
    /\ extracted.status = "none"
    /\ extracted' = process(source)
    /\ UNCHANGED source
    /\ UNCHANGED <<orchestrator, decoder, toolbox>>

\* agent.py:151-205 on the source: process_form of the path that names it,
\* the document processor answering for the source.
ProcessFormOfSource ==
    /\ extracted.status = "none"
    /\ pc = "idle" /\ nops < MaxOps
    /\ \E force \in BOOLEAN, resp \in AnswerResponses :
          LET path == "a"
              doc == process(source)
              fs == doc.status = "returned"
              out == process_form_outcome(path, force, fs, resp)
              call == [Result("process_form") EXCEPT !.path = path, !.force = force]
          IN
          /\ process_form(path, force, fs, resp)
          /\ log' = process_form_events(path, force, fs, resp)
          /\ result' =
                IF out \in {"hit", "built"}
                THEN [call EXCEPT !.type = "form",
                                  !.forms = <<process_form_return(path, force, fs, resp)>>]
                ELSE IF out = "not_found" THEN Raised(call, doc.error)
                ELSE Raised(call, ProcessFormError(out))
          /\ extracted' = doc
    /\ nops' = nops + 1
    /\ pc' = "idle"
    /\ wf' = NoFrame
    /\ UNCHANGED source
    /\ UNCHANGED <<decoder, toolbox, detail>>

\* Ingestion taken alone: any source of the bounds, ingested once.
InitIngest ==
    /\ AgentInit
    /\ DecoderInit
    /\ ToolsInit
    /\ source \in Sources
    /\ extracted = NotExtracted

NextIngest ==
    \/ Process
    \/ ProcessFormOfSource

SpecIngest == InitIngest /\ [][NextIngest]_vars

\* ------------------------------------------------------ the agent, complete
Next ==
    \/ ProcessFormCall /\ UNCHANGED layers
    \/ AskCall /\ UNCHANGED layers
    \/ SummarizeCall /\ UNCHANGED layers
    \/ AnalyzeCall /\ UNCHANGED layers
    \/ AskMultipleCall /\ UNCHANGED layers
    \/ CompareCall /\ UNCHANGED layers
    \/ GetStatsCall /\ UNCHANGED layers
    \/ ClearCacheCall /\ UNCHANGED layers
    \/ ProcessFormsBegin /\ UNCHANGED layers
    \/ RunWorkflowBegin /\ UNCHANGED layers
    \/ BatchProcessStep /\ UNCHANGED layers
    \/ ProcessFormsReturn /\ UNCHANGED layers
    \/ WorkflowClassify /\ UNCHANGED layers
    \/ WorkflowKeyError /\ UNCHANGED layers
    \/ WorkflowExtract /\ UNCHANGED layers
    \/ WorkflowQA /\ UNCHANGED layers
    \/ WorkflowSummarizeStep /\ UNCHANGED layers
    \/ WorkflowSummarizeReturn /\ UNCHANGED layers
    \/ WorkflowAnalyze /\ UNCHANGED layers

Spec == Init /\ [][Next]_vars

\* ------------------------------------------------- the fields of the forms
\* The agent with the fields of the forms it builds.  The cache and the
\* values handed to callers hold references (ProcessedForm(id, path) above);
\* instances holds, per id, the fields of the object.  The actions are the
\* methods of the agent called one at a time; process_forms and
\* run_workflow (agent.py:217, 449-511) are sequences of these calls, of
\* _analyze_task, which touches no form, and of to_dict.

\* The files of the file system; a path string names one of them or nothing.
Files == {"f", "g"}
NoFile == "none"
FileSystemsOfPaths == [Paths -> Files \cup {NoFile}]

\* The confidence an extraction answer carries: the key is missing, a number
\* within the range, a number above it, a number below it, or a value that
\* is no number.
AnswerConfidences == {"missing", "0.5", "1.5", "-0.5", "high"}

\* What extraction_tool.run ends with: it raises, or it returns an
\* ExtractionResult made from the mapping of the model.
ExtractionAnswers ==
    {[kind |-> "raise", confidence |-> "missing"]}
    \cup [kind : {"result"}, confidence : AnswerConfidences]

\* agent.py:185, the format {extraction_result.confidence:.1%} of the
\* progress message: defined for a number only.
Formattable(answer) == answer.confidence # "high"

\* tools.py:175, confidence=result.get("confidence", 0.0): the number the
\* result holds, in tenths.
confidence_of(answer) ==
    IF answer.confidence = "missing" THEN 0
    ELSE IF answer.confidence = "0.5" THEN 5
    ELSE IF answer.confidence = "1.5" THEN 15
    ELSE 0 - 5

\* How the caller of the tool sees the answer.
ResponseOf(answer) ==
    IF answer.kind = "raise" THEN "raise"
    ELSE IF Formattable(answer) THEN "ok"
    ELSE "unusable"

\* Mutant: the form takes the path of the document, which process has
\* resolved to the file, not the string the caller passed.
FormFields_ResolvedPath(file_path, file, answer) ==
    [file_path |-> file,
     raw_text |-> file,
     extracted_fields |-> "fields",
     extraction_confidence |-> confidence_of(answer)]

\* agent.py:188-200: the fields of the ProcessedForm built for file_path from
\* the document read from file and from the extraction result.
FormFields(file_path, file, answer) ==
    [file_path |-> file_path,
     raw_text |-> file,
     extracted_fields |-> "fields",
     extraction_confidence |-> confidence_of(answer)]

\* Mutant: building the form of a path rewrites the forms built for that
\* path before (reprocessing updates in place).
New_InPlace(heap, id, fields) ==
    [i \in DOMAIN heap \cup {id} |->
        IF i = id \/ heap[i].file_path = fields.file_path THEN fields ELSE heap[i]]

\* agent.py:188, ProcessedForm(...): a new object; the others stay.
New(heap, id, fields) ==
    [i \in DOMAIN heap \cup {id} |-> IF i = id THEN fields ELSE heap[i]]

\* process_form with the fields of the form it builds.
FormsProcessForm ==
    /\ \E path \in Paths, force \in BOOLEAN, answer \in ExtractionAnswers :
          LET fs == source[path] # NoFile
              resp == ResponseOf(answer)
          IN
          /\ ProcessFormCallOf(path, force, fs, resp)
          /\ instances' =
                IF process_form_outcome(path, force, fs, resp) = "built"
                THEN New(instances, next_id, FormFields(path, source[path], answer))
                ELSE instances
    /\ UNCHANGED <<callers, source, extracted, decoder, toolbox>>

\* agent.py:71-72, ProcessedForm.to_dict: asdict copies the fields.
to_dict(form) == instances[form.id]

\* run_workflow (agent.py:459, 509) and export_json (384) take the dict of
\* a form.
ToDictCall ==
    /\ pc = "idle"
    /\ \E p \in DOMAIN processed_forms :
          result' = [Returned("to_dict", "dict", <<processed_forms[p]>>)
                        EXCEPT !.path = p, !.stats = to_dict(processed_forms[p])]
    /\ log' = <<>>
    /\ pc' = "idle"
    /\ wf' = NoFrame
    /\ UNCHANGED <<agent, ghost, nops>>

FormsFrame == UNCHANGED <<detail, decoder, toolbox, ingestion>>

InitForms ==
    /\ AgentInit
    /\ DecoderInit
    /\ ToolsInit
    /\ source \in FileSystemsOfPaths
    /\ extracted = NotExtracted

NextForms ==
    \/ FormsProcessForm
    \/ AskCall /\ FormsFrame
    \/ SummarizeCall /\ FormsFrame
    \/ AnalyzeCall /\ FormsFrame
    \/ GetStatsCall /\ FormsFrame
    \/ ClearCacheCall /\ FormsFrame
    \/ ToDictCall /\ FormsFrame

SpecForms == InitForms /\ [][NextForms]_vars

\* ------------------------------------------- several callers of one agent
\* process_form takes no lock: between any two of its lines that touch the
\* agent another caller's lines can run.  Each action below is one such line
\* (or a run of lines that touch nothing shared) of the call of caller t.
Calling(t, fields) == [callers EXCEPT ![t] = fields]
Ended(t, outcome, form) ==
    Calling(t, [callers[t] EXCEPT !.pc = "idle", !.outcome = outcome, !.form = form])

\* process_form(path, force) is called (agent.py:151).
Invoke(t) ==
    /\ callers[t].pc = "idle" /\ nops < MaxOps
    /\ \E path \in Paths, force \in BOOLEAN :
          /\ callers' = Calling(t, [NotCalling EXCEPT !.pc = "check", !.path = path,
                                                     !.force = force, !.outcome = "running"])
          /\ forced_calls' =
                IF force THEN [forced_calls EXCEPT ![path] = @ + 1] ELSE forced_calls
    /\ nops' = nops + 1
    /\ UNCHANGED <<processed_forms, total_llm_calls, next_id, issued, extract_calls,
                   failed_calls, stored, cleared>>

\* agent.py:168-170, the cache check and the return of the cached form.
CheckCache(t) ==
    /\ callers[t].pc = "check"
    /\ callers' =
          IF CacheHit(callers[t].path, callers[t].force)
          THEN Ended(t, "hit", <<processed_forms[callers[t].path]>>)
          ELSE Calling(t, [callers[t] EXCEPT !.pc = "ingest"])
    /\ UNCHANGED <<agent, ghost, nops>>

\* Mutant: the cache is looked up again after ingestion, and a form stored
\* in the meantime is returned.
Ingest_ChecksAgain(t) ==
    /\ callers[t].pc = "ingest"
    /\ \E fs \in FileSystems :
          callers' =
             IF CacheHit(callers[t].path, callers[t].force)
             THEN Ended(t, "hit", <<processed_forms[callers[t].path]>>)
             ELSE IF DocumentFound(callers[t].path, fs)
             THEN Calling(t, [callers[t] EXCEPT !.pc = "extract"])
             ELSE Ended(t, "not_found", <<>>)
    /\ UNCHANGED <<agent, ghost, nops>>

\* agent.py:175, self.doc_processor.process(file_path).
Ingest(t) ==
    /\ callers[t].pc = "ingest"
    /\ \E fs \in FileSystems :
          callers' =
             IF DocumentFound(callers[t].path, fs)
             THEN Calling(t, [callers[t] EXCEPT !.pc = "extract"])
             ELSE Ended(t, "not_found", <<>>)
    /\ UNCHANGED <<agent, ghost, nops>>

\* agent.py:180, self.extraction_tool.run(extracted): the call is issued and
\* answered.
Extract(t) ==
    /\ callers[t].pc = "extract"
    /\ issued' = issued + 1
    /\ extract_calls' = [extract_calls EXCEPT ![callers[t].path] = @ + 1]
    /\ \E resp \in AnswerResponses :
          /\ callers' =
                IF resp = "raise" THEN Ended(t, "llm_error", <<>>)
                ELSE Calling(t, [callers[t] EXCEPT !.pc = "load", !.resp = resp])
          /\ failed_calls' =
                IF resp = "raise" /\ ~callers[t].force
                THEN [failed_calls EXCEPT ![callers[t].path] = @ + 1] ELSE failed_calls
    /\ UNCHANGED <<processed_forms, total_llm_calls, next_id, forced_calls, stored,
                   cleared, nops>>

\* agent.py:181, self.total_llm_calls += 1: the attribute is loaded ...
LoadCounter(t) ==
    /\ callers[t].pc = "load"
    /\ callers' = Calling(t, [callers[t] EXCEPT !.pc = "add", !.loaded = total_llm_calls])
    /\ UNCHANGED <<agent, ghost, nops>>

\* ... and the sum is stored.
StoreCounter(t) ==
    /\ callers[t].pc = "add"
    /\ total_llm_calls' = callers[t].loaded + 1
    /\ callers' = Calling(t, [callers[t] EXCEPT !.pc = "build"])
    /\ UNCHANGED <<processed_forms, next_id, ghost, nops>>

\* agent.py:183-205: the progress message, the new ProcessedForm, the cache
\* store and the return.
BuildAndStore(t) ==
    /\ callers[t].pc = "build"
    /\ IF callers[t].resp = "unusable"
       THEN /\ callers' = Ended(t, "format_error", <<>>)
            /\ failed_calls' =
                  IF ~callers[t].force
                  THEN [failed_calls EXCEPT ![callers[t].path] = @ + 1] ELSE failed_calls
            /\ UNCHANGED <<processed_forms, next_id, stored>>
       ELSE /\ processed_forms' =
                  CacheStore(processed_forms, callers[t].path,
                             ProcessedForm(next_id, callers[t].path))
            /\ next_id' = next_id + 1
            /\ stored' = [stored EXCEPT ![callers[t].path] = next_id]
            /\ callers' = Ended(t, "built", <<ProcessedForm(next_id, callers[t].path)>>)
            /\ UNCHANGED failed_calls
    /\ UNCHANGED <<total_llm_calls, issued, extract_calls, forced_calls, cleared, nops>>

ConcurrentFrame == UNCHANGED <<pc, wf, log, result, instances, decoder, toolbox, ingestion>>

NextConcurrent ==
    \/ \E t \in Callers : Invoke(t) /\ ConcurrentFrame
    \/ \E t \in Callers : CheckCache(t) /\ ConcurrentFrame
    \/ \E t \in Callers : Ingest(t) /\ ConcurrentFrame
    \/ \E t \in Callers : Extract(t) /\ ConcurrentFrame
    \/ \E t \in Callers : LoadCounter(t) /\ ConcurrentFrame
    \/ \E t \in Callers : StoreCounter(t) /\ ConcurrentFrame
    \/ \E t \in Callers : BuildAndStore(t) /\ ConcurrentFrame

SpecConcurrent == Init /\ [][NextConcurrent]_vars

\* ================================================================ claims
\* The step just taken is a top-level call of method op.
IsCall(op) == pc = "idle" /\ result'.op = op

\* The top-level process_form call just made was for path p with force f.
IsProcessForm(p, f) ==
    IsCall("process_form") /\ result'.path = p /\ result'.force = f

HitLog(p) == <<Event("hit", p, NoForms)>>
IngestLog(p) == <<Event("ingest", p, NoForms)>>
ExtractLog(p) == <<Event("ingest", p, NoForms), Event("extract", p, NoForms)>>

\* C1: once process_form(p) has succeeded, every later process_form(p) without
\* force, before any clear_cache, is a cache hit: no ingestion, no model call,
\* the cache and total_llm_calls unchanged, and the instance the earlier
\* (latest successful) call stored is what it returns.
C1_CachedFormIsReturned ==
    [][\A p \in Paths :
          (IsProcessForm(p, FALSE) /\ stored[p] # 0) =>
              /\ log' = HitLog(p)
              /\ issued' = issued
              /\ processed_forms' = processed_forms
              /\ total_llm_calls' = total_llm_calls
              /\ result'.status = "ok"
              /\ result'.forms = <<ProcessedForm(stored[p], p)>>
              /\ processed_forms[p] = ProcessedForm(stored[p], p)]_vars

\* C1 witness: two process_form calls for one path, the second a cache hit,
\* one model call in total.
C1_Witness ==
    /\ result.op = "process_form" /\ result.path = "a" /\ ~result.force
    /\ log = HitLog("a")
    /\ nops = 2 /\ issued = 1 /\ total_llm_calls = 1
    /\ result.forms = <<ProcessedForm(1, "a")>>

\* C2 as stated: process_form(p, force_reprocess=true) on a cached path always
\* runs ingestion and issues one new field-extraction call, increments
\* total_llm_calls by exactly one, and on success the cache entry for p is the
\* newly built ProcessedForm, no other entry changing.
C2_ForcedAlwaysCallsAndCounts ==
    [][\A p \in Paths :
          (IsProcessForm(p, TRUE) /\ p \in DOMAIN processed_forms) =>
              /\ log' = ExtractLog(p)
              /\ issued' = issued + 1
              /\ total_llm_calls' = total_llm_calls + 1
              /\ result'.status = "ok" =>
                    /\ processed_forms'[p] = ProcessedForm(next_id, p)
                    /\ processed_forms'[p] # processed_forms[p]
                    /\ DOMAIN processed_forms' = DOMAIN processed_forms
                    /\ \A q \in DOMAIN processed_forms \ {p} :
                          processed_forms'[q] = processed_forms[q]]_vars

\* C2 amended: process_form(p, force_reprocess=true) on a cached path never
\* answers from the cache: it always runs ingestion; unless ingestion raises
\* it issues exactly one new field-extraction call; total_llm_calls never
\* goes up by more than one, stays as it is when no call was issued, and goes
\* up by exactly one when the call returns; the cache entry for p is then the
\* newly built instance, which is returned, no other entry changing; when
\* ingestion or the call raises, the cache keeps every entry, the old one for
\* p included.
C2_ForcedReprocessReplaces ==
    [][\A p \in Paths :
          (IsProcessForm(p, TRUE) /\ p \in DOMAIN processed_forms) =>
              /\ log' \in {IngestLog(p), ExtractLog(p)}
              /\ (log' = IngestLog(p)) <=> (result'.error = "FileNotFoundError")
              /\ issued' = IF log' = ExtractLog(p) THEN issued + 1 ELSE issued
              /\ total_llm_calls' \in {total_llm_calls, total_llm_calls + 1}
              /\ log' = IngestLog(p) => total_llm_calls' = total_llm_calls
              /\ result'.status = "ok" =>
                    /\ log' = ExtractLog(p)
                    /\ total_llm_calls' = total_llm_calls + 1
                    /\ processed_forms'[p] = ProcessedForm(next_id, p)
                    /\ processed_forms'[p] # processed_forms[p]
                    /\ result'.forms = <<processed_forms'[p]>>
                    /\ DOMAIN processed_forms' = DOMAIN processed_forms
                    /\ \A q \in DOMAIN processed_forms \ {p} :
                          processed_forms'[q] = processed_forms[q]
              /\ result'.status = "raised" => processed_forms' = processed_forms]_vars

\* C2 witness: a forced reprocess of a cached path has replaced the entry
\* built by the first call with a second instance.
C2_Witness ==
    /\ result.op = "process_form" /\ result.path = "a" /\ result.force
    /\ result.status = "ok"
    /\ stored["a"] = 2 /\ extract_calls["a"] = 2 /\ forced_calls["a"] = 1
    /\ processed_forms["a"] = ProcessedForm(2, "a")
    /\ total_llm_calls = 2

\* C3 as stated: within one cache lifetime the field-extraction calls issued
\* for a path are at most one plus the calls for that path made with
\* force_reprocess=true, also when an extraction call fails.
C3_AtMostOnePlusForced ==
    \A p \in Paths : extract_calls[p] <= 1 + forced_calls[p]

\* C3 amended: within one cache lifetime the field-extraction calls issued
\* for a path are at most one, plus the calls for that path made with
\* force_reprocess=true, plus the unforced calls for that path whose
\* extraction call failed (a failed extraction caches nothing, so the next
\* unforced call issues a new one).
C3_AtMostOnePlusForcedPlusFailed ==
    \A p \in Paths : extract_calls[p] <= 1 + forced_calls[p] + failed_calls[p]

\* C3 witness: a second extraction call for a path, unforced, after the first
\* one failed.
C3_Witness ==
    /\ extract_calls["a"] = 2 /\ forced_calls["a"] = 0 /\ failed_calls["a"] = 1
    /\ "a" \in DOMAIN processed_forms

\* C4 as stated: in every reachable state total_llm_calls equals the number of
\* calls the agent has issued to the generation capability.
C4_CounterEqualsIssued == total_llm_calls = issued

ToolEvents == {"qa", "summarize", "analyze"}
ToolOps == {"ask", "summarize", "analyze", "ask_multiple", "compare"}

\* The positions of the log that hold an event of kind ev.
Positions(ev) == {i \in 1..Len(log) : log[i].ev = ev}

\* The events that follow the classification call of the invocation.
AfterClassify ==
    LET c == CHOOSE i \in Positions("classify") : TRUE IN SubSeq(log, c + 1, Len(log))

\* The paths whose processing has begun before position c of the log, in
\* the order of the log: one "hit" or one "ingest" event each.
IsVisit(e) == e.ev \in {"hit", "ingest"}
Visited(c) ==
    LET starts == SelectSeq(SubSeq(log, 1, c - 1), IsVisit)
    IN [i \in 1..Len(starts) |-> starts[i].path]

\* C6: each successful ask, summarize or analyze (and compare and
\* ask_multiple, which delegate to analyze), called by the caller or inside
\* run_workflow, issues exactly one model call, adds exactly one to
\* total_llm_calls and leaves the cache as it was (the same paths, the same
\* entries), whether or not the form it is given is cached.
C6_ToolCallsLeaveCache ==
    [][/\ (\E op \in ToolOps : IsCall(op)) /\ result'.status = "ok" =>
              /\ Len(log') = 1 /\ log'[1].ev \in ToolEvents
              /\ issued' = issued + 1
              /\ total_llm_calls' = total_llm_calls + 1
              /\ processed_forms' = processed_forms
       /\ (/\ pc = "dispatch" /\ Len(log') = Len(log) + 1
           /\ (pc' = "dispatch" \/ result'.status = "ok")) =>
              /\ log'[Len(log')].ev \in ToolEvents
              /\ issued' = issued + 1
              /\ total_llm_calls' = total_llm_calls + 1
              /\ processed_forms' = processed_forms]_vars

\* C6 witness: a successful ask about a form the cache does not hold, with
\* another path's form cached.
C6_Witness ==
    /\ result.op = "ask" /\ result.status = "ok"
    /\ log = <<Event("qa", "b", <<ProcessedForm(0, "b")>>)>>
    /\ DOMAIN processed_forms = {"a"}
    /\ total_llm_calls = 2 /\ issued = 2

\* C7: in run_workflow, when the classification returns qa: with exactly one
\* document the question-answering tool is invoked on that document and the
\* cross-document analysis tool is not; with two or more documents the
\* analysis tool is invoked once over all the documents and the
\* question-answering tool is not.
C7_QARouting ==
    (wf.kind = "run_workflow" /\ wf.task_type = "qa" /\ pc = "idle") =>
        /\ Len(wf.forms) = Len(wf.paths)
        /\ Len(wf.forms) = 1 =>
              AfterClassify = <<Event("qa", wf.forms[1].file_path, <<wf.forms[1]>>)>>
        /\ Len(wf.forms) >= 2 =>
              AfterClassify = <<Event("analyze", "", wf.forms)>>

\* C7 witness: a qa workflow over one document has been answered by the
\* question-answering tool.
C7_Witness ==
    /\ wf.kind = "run_workflow" /\ wf.task_type = "qa" /\ pc = "idle"
    /\ wf.paths = <<"a">>
    /\ result.status = "ok" /\ result.type = "qa"
    /\ log[Len(log)].ev = "qa"

\* C8: in run_workflow, whenever the classification returns a category that
\* is none of extract, qa, summarize, analyze, the general branch is taken:
\* the only calls that follow are summarizations, of the documents in order
\* and one each; when they have all returned the result is of type general
\* and holds the processed forms and one summary per document; and the only
\* error the workflow can raise from there is the one of a summarization
\* call, never one caused by the category.
C8_UnrecognizedFallsBackToGeneral ==
    (wf.kind = "run_workflow" /\ wf.task_type = "other" /\ pc \in {"dispatch", "idle"}) =>
        LET post == AfterClassify IN
        /\ Len(post) <= Len(wf.forms)
        /\ \A i \in 1..Len(post) :
              post[i] = Event("summarize", wf.forms[i].file_path, <<wf.forms[i]>>)
        /\ pc = "idle" =>
              \/ /\ result.status = "ok"
                 /\ result.type = "general"
                 /\ result.forms = wf.forms
                 /\ Len(post) = Len(wf.forms)
                 /\ result.summaries = [i \in 1..Len(wf.forms) |-> wf.forms[i].file_path]
              \/ /\ result.status = "raised"
                 /\ result.error = "LLMError"
                 /\ Len(post) >= 1

\* C8 witness: an unrecognized category, two documents, both summarized in
\* order, a general result returned.
C8_Witness ==
    /\ wf.kind = "run_workflow" /\ wf.task_type = "other" /\ pc = "idle"
    /\ wf.paths = <<"a", "b">>
    /\ result.status = "ok" /\ result.type = "general"
    /\ Len(result.forms) = 2 /\ result.summaries = <<"a", "b">>

WorkflowTypes == {"extraction", "qa", "summarization", "analysis", "general"}

\* The state part of C9.
C9_Ordered ==
    wf.kind = "run_workflow" =>
        /\ Cardinality(Positions("classify")) <= 1
        /\ \A c \in Positions("classify") :
              /\ Visited(c) = wf.paths
              /\ Len(wf.forms) = Len(wf.paths)
              /\ \A i \in 1..Len(log) :
                    /\ i < c => log[i].ev \in {"hit", "ingest", "extract"}
                    /\ i > c => log[i].ev \in ToolEvents
        /\ \A i \in 1..Len(log) :
              log[i].ev \in ToolEvents => \E c \in Positions("classify") : c < i
        /\ (pc = "idle" /\ result.status = "ok") =>
              /\ Cardinality(Positions("classify")) = 1
              /\ result.type \in WorkflowTypes
              /\ LET post == AfterClassify IN
                 /\ result.type = "extraction" => post = <<>>
                 /\ result.type = "qa" =>
                       Len(post) = 1 /\ post[1].ev \in {"qa", "analyze"}
                 /\ result.type = "analysis" =>
                       Len(post) = 1 /\ post[1].ev = "analyze"
                 /\ result.type \in {"summarization", "general"} =>
                       \A i \in 1..Len(post) : post[i].ev = "summarize"

\* The step part of C9: a path is processed through the cache, and the
\* classification call is one call, counted once when it returns.
C9_Steps ==
    /\ (pc = "processing" /\ wf.kind = "run_workflow" /\ wf'.forms # wf.forms) =>
          LET p == wf.paths[Len(wf.forms) + 1] IN
          /\ wf'.forms = Append(wf.forms, processed_forms'[p])
          /\ p \in DOMAIN processed_forms =>
                log' = log \o HitLog(p) /\ processed_forms' = processed_forms
          /\ p \notin DOMAIN processed_forms => log' = log \o ExtractLog(p)
    /\ (pc = "processing" /\ Len(log') > Len(log) /\ log'[Len(log')].ev = "classify") =>
          /\ Len(log') = Len(log) + 1
          /\ issued' = issued + 1
          /\ pc' = "dispatch" => total_llm_calls' = total_llm_calls + 1
          /\ pc' \in {"dispatch", "idle"}

ObjectTexts == {<<"{", "}">>, <<"{", "m", "}">>}
ValueOf(text) == json_loads(text).value

IsProse(s) == \A i \in 1..Len(s) : s[i] \in {"x", "\n"}
IsTag(s) == \A i \in 1..Len(s) : s[i] = "x"
Part(s, i, j) == SubSeq(s, i, j)

\* The text is the object text obj preceded and / or followed by prose.
InProse(s, obj) ==
    \E i \in 1..Len(s), j \in 1..Len(s) :
        /\ Part(s, i, j) = obj
        /\ IsProse(Part(s, 1, i - 1))
        /\ IsProse(Part(s, j + 1, Len(s)))

\* The text is the object text obj in a fenced code block: the opening marker
\* and an optional language tag, a newline, the object, a newline, the
\* closing marker.
Fenced(s, obj) ==
    \E i \in 2..Len(s) :
        /\ s[1] = "fence" /\ IsTag(Part(s, 2, i - 1)) /\ s[i] = "\n"
        /\ Part(s, i + 1, Len(s)) = obj \o <<"\n", "fence">>

\* Some span of the text that goes from a "{" to a "}" parses as a JSON
\* object (such a span is balanced).
ParseableSpan(s) ==
    \E i \in 1..Len(s), j \in 1..Len(s) :
        /\ i < j /\ s[i] = "{" /\ s[j] = "}"
        /\ json_loads(Part(s, i, j)).ok

ReturnsObject(obj) == decoded.status = "returned" /\ decoded.value = ValueOf(obj)

\* C10, the recovery part: the JSON object is returned for a response that
\* is its raw text, its text in a fenced code block, or its text with prose
\* before and / or after it.
C10_Recovers ==
    decoded.status # "none" =>
        \A obj \in ObjectTexts :
            /\ response = obj => ReturnsObject(obj)
            /\ Fenced(response, obj) => ReturnsObject(obj)
            /\ InProse(response, obj) => ReturnsObject(obj)

\* C10: the decode returns the JSON object for a response that is the raw
\* JSON text, that JSON in a fenced code block, or that JSON preceded and / or
\* followed by prose, and it raises only when no balanced brace span of the
\* response parses as JSON: prose that itself contains braces around a
\* parseable object does not make it fail.
C10_RaisesOnlyWhenNoSpanParses ==
    /\ C10_Recovers
    /\ decoded.status = "raised" => ~ParseableSpan(response)

\* The values json_loads can return that are mappings.
Mappings == {ValueOf(obj) : obj \in ObjectTexts}

\* C11: for every response text generate_structured either returns a mapping
\* (a JSON object) or fails with an error; it never returns a value that is
\* not a mapping (a JSON array, number, string or null).
C11_MappingOrFailure ==
    decoded.status # "none" =>
        \/ decoded.status = "returned" /\ decoded.value \in Mappings
        \/ decoded.status = "raised"

\* The strict parse and the brace-span retry both fail on the response.
BothParsesFail(text) ==
    LET stripped == strip(text)
        content == IF startswith_fence(stripped) THEN lines_1_to_last(stripped)
                   ELSE stripped
        found == json_match(content)
    IN /\ ~json_loads(content).ok
       /\ found.found => ~json_loads(found.group).ok

\* C12: whenever the strict parse and the brace-span retry both fail,
\* generate_structured raises the MalformedOutput error (the ValueError of
\* the decode) carrying the parse error and the offending text, the text it
\* tried to parse, on both failure paths: no brace span found, brace span
\* found but unparseable; it never returns an empty mapping instead.
C12_FailureCarriesErrorAndText ==
    (decoded.status # "none" /\ BothParsesFail(response)) =>
        /\ decoded.status = "raised"
        /\ decoded.value # "{}"
        /\ decoded.error = "ValueError"
        /\ decoded.text = decoded.content

\* --------------------------------------------------- the capability tools
IsToolRun == tool_result' # tool_result \/ llm_calls' # llm_calls

\* C13: each run of a capability tool issues exactly one call to
\* generate_structured, whatever the document and whatever the response, a
\* failed call included: nothing is retried.
C13_OneCallPerRun ==
    [][IsToolRun => /\ llm_calls' = llm_calls + 1
                    /\ tool_result'.tool \in ToolNames
                    /\ tool_result'.status \in {"returned", "raised"}]_vars

\* C13 witness: two runs, the second one of the question-answering tool whose
\* call raised, two calls in all.
C13_Witness ==
    /\ llm_calls = 2
    /\ tool_result.tool = "qa" /\ tool_result.status = "raised"
    /\ tool_result.error = "LLMError"

\* The defaults C14 names, by key.
StatedDefault(key) ==
    CASE key \in {"fields", "important_values", "comparisons", "statistics"} -> "{}"
      [] key \in {"evidence", "key_points", "insights"} -> "[]"
      [] key = "confidence" -> "0.0"
      [] key = "reasoning" -> "''"
      [] OTHER -> "any"

\* C14: for every mapping generate_structured returns, the run of each tool
\* returns its typed result and does not raise, and every list or mapping
\* field the response omits holds its non-null default: fields {}, evidence
\* [], key_points [], important_values {}, insights [], comparisons {},
\* statistics {}; an omitted confidence is 0.0 and an omitted reasoning "".
C14_OmittedFieldsGetDefaults ==
    tool_result.answered.kind = "mapping" =>
        /\ tool_result.status = "returned"
        /\ Len(tool_result.value) = Len(ToolKeys[tool_result.tool])
        /\ \A k \in 1..Len(tool_result.value) :
              LET key == ToolKeys[tool_result.tool][k] IN
              (tool_result.answered.mapping[k] = "absent" /\ StatedDefault(key) # "any") =>
                  /\ tool_result.value[k] = StatedDefault(key)
                  /\ tool_result.value[k] # "None"

\* C14 witness: the analysis tool was answered a mapping that holds the
\* answer alone, and returned empty insights, comparisons and statistics.
C14_Witness ==
    /\ tool_result.tool = "analysis" /\ tool_result.status = "returned"
    /\ tool_result.answered.mapping = <<"given", "absent", "absent", "absent">>
    /\ tool_result.value = <<"given", "[]", "{}", "{}">>

\* ------------------------------------------------------------- ingestion
Ingested == extracted.status # "none"

\* C15: ingesting a path that names nothing raises the not-found error and
\* returns no document, whatever the extension; through process_form, no
\* model call is issued, nothing is added to the cache and total_llm_calls
\* is unchanged.
C15_MissingFileRaisesNotFound ==
    [][(~source.exists /\ extracted' # extracted) =>
          /\ extracted' = IngestError("FileNotFoundError")
          /\ issued' = issued
          /\ processed_forms' = processed_forms
          /\ total_llm_calls' = total_llm_calls
          /\ result' # result =>
                /\ result'.status = "raised"
                /\ result'.error = "FileNotFoundError"
                /\ log' = IngestLog(result'.path)]_vars

\* C15 witness: process_form of a missing .pdf path has raised.
C15_Witness ==
    /\ ~source.exists /\ source.ext = ".pdf"
    /\ extracted.status = "raised" /\ extracted.error = "FileNotFoundError"
    /\ result.op = "process_form" /\ result.error = "FileNotFoundError"
    /\ issued = 0 /\ total_llm_calls = 0 /\ DOMAIN processed_forms = {}

\* The extension-to-format table as C16 states it: the enumeration pdf,
\* image, text, csv, json, html, markdown.
StatedTag(ext) ==
    CASE ext = ".pdf" -> "pdf"
      [] ext \in {".png", ".jpg", ".jpeg", ".tiff", ".tif", ".bmp"} -> "image"
      [] ext = ".json" -> "json"
      [] ext = ".csv" -> "csv"
      [] ext \in {".html", ".htm"} -> "html"
      [] ext \in {".md", ".markdown"} -> "markdown"
      [] OTHER -> "text"

\* The table with the tags the documents carry.
CarriedTag(ext) ==
    CASE ext = ".pdf" -> "pdf"
      [] ext = ".png" -> "png"
      [] ext = ".jpg" -> "jpg"
      [] ext = ".jpeg" -> "jpeg"
      [] ext \in {".tiff", ".tif"} -> "tiff"
      [] ext = ".bmp" -> "bmp"
      [] ext = ".json" -> "json"
      [] ext = ".csv" -> "csv"
      [] ext \in {".html", ".htm"} -> "html"
      [] ext \in {".md", ".markdown"} -> "markdown"
      [] OTHER -> "txt"

\* The extension, case folded, by a table of its own.
Folded(ext) ==
    CASE ext = ".PDF" -> ".pdf" [] ext = ".JPG" -> ".jpg" [] ext = ".JSON" -> ".json"
      [] OTHER -> ext

Failure(src) ==
    IF src.kind = "pdf"
    THEN \/ ~src.has_pdfplumber
         \/ src.fails_at <= Len(src.page_texts)
    ELSE IF src.kind = "image"
    THEN \/ ~src.has_ocr_libs \/ ~src.ocr_enabled
         \/ src.image = "corrupt" \/ src.ocr = "raise"
    ELSE \/ ~src.readable
         \/ detect_file_type(src.ext) = "json" /\ src.body.json.kind = "bad"

\* C17: for an existing source, ingestion never raises: a missing library,
\* a malformed PDF, an unreadable or corrupt image, OCR unavailable or
\* failing, a bad JSON body each give a returned document with an empty or
\* partial text and a diagnostic note in its metadata.
C17_ExistingSourceNeverRaises ==
    (Ingested /\ source.exists) =>
        /\ extracted.status = "returned"
        /\ Failure(source) => "error" \in extracted.metadata.keys

\* The native result of a PDF source: what was read before any OCR.
NativeRead(src) ==
    LET n == Len(src.page_texts)
        k == IF src.fails_at > n THEN n ELSE IF src.fails_at = 0 THEN 0 ELSE src.fails_at - 1
    IN [raised |-> src.fails_at <= n,
        text |-> native_text(src.page_texts, k),
        pages |-> SubSeq(src.page_texts, 1, k),
        tables |-> IF src.has_tables THEN [i \in 1..k |-> "table"] ELSE <<>>]

\* C18: in PDF ingestion the OCR fallback runs exactly when native
\* extraction raised or gave an empty full text, and OCR is enabled; a
\* successful fallback sets ocr_used; any failure of the fallback (OCR
\* unavailable, OCR raising) is swallowed, the document keeping the text,
\* pages and tables already extracted, with an error field in its metadata.
C18_OcrFallback ==
    (Ingested /\ source.kind = "pdf" /\ source.has_pdfplumber) =>
        LET native == NativeRead(source)
            due == (native.raised \/ native.text = <<>>) /\ source.ocr_enabled
        IN /\ extracted.status = "returned"
           /\ (extracted.ocr_runs > 0) <=> due
           /\ (due /\ source.ocr = "ok") => "ocr_used" \in extracted.metadata.keys
           /\ (due /\ source.ocr # "ok") =>
                 /\ extracted.raw_text = native.text
                 /\ extracted.pages = native.pages
                 /\ extracted.tables = native.tables
                 /\ "error" \in extracted.metadata.keys

IsJsonFile == source.kind = "text" /\ source.readable /\ detect_file_type(source.ext) = "json"

ArrayOfObjects(json) ==
    /\ json.kind = "array" /\ Len(json.items) > 0
    /\ \A i \in 1..Len(json.items) : json.items[i].isobj

\* C19: a JSON file whose top-level value is a non-empty array of objects
\* gives exactly one table: the keys of the first object in their order,
\* then one row per element with the string form of the element's value for
\* each header key, the empty string for a key the element lacks; any other
\* JSON content, and a parse failure, give no table and no error.
C19_JsonArrayTable ==
    (Ingested /\ IsJsonFile) =>
        LET json == source.body.json IN
        /\ extracted.status = "returned"
        /\ ArrayOfObjects(json) =>
              /\ Len(extracted.tables) = 1
              /\ LET table == extracted.tables[1]
                     header == json.items[1].keys
                 IN /\ Len(table) = Len(json.items) + 1
                    /\ table[1] = header
                    /\ \A i \in 1..Len(json.items) :
                          /\ Len(table[i + 1]) = Len(header)
                          /\ \A j \in 1..Len(header) :
                                LET item == json.items[i]
                                    at == {k \in 1..Len(item.keys) : item.keys[k] = header[j]}
                                IN table[i + 1][j] =
                                      IF at = {} THEN ""
                                      ELSE IF \E k \in at : item.vals[k] = "null" THEN "None"
                                      ELSE "1"
        /\ ~ArrayOfObjects(json) => extracted.tables = <<>>

\* C19 witness: a table of two objects, the second lacking a key of the
\* first and holding one the first lacks.
C19_Witness ==
    /\ Ingested /\ IsJsonFile
    /\ source.body.json.items =
          <<[isobj |-> TRUE, keys |-> <<"b", "a">>, vals |-> <<"1", "null">>],
            [isobj |-> TRUE, keys |-> <<"a">>, vals |-> <<"1">>]>>
    /\ extracted.tables = << <<<<"b", "a">>, <<"1", "None">>, <<"", "1">>>> >>

IsCsvFile == source.kind = "text" /\ source.readable /\ detect_file_type(source.ext) = "csv"

\* The number of records of a CSV content: its newlines, and one more when
\* something follows the last one.
NumRecords(content) ==
    Cardinality(IndexOf(content, "\n")) +
        (IF content # <<>> /\ content[Len(content)] # "\n" THEN 1 ELSE 0)

\* The rows written back: fields joined by commas, rows ended by newlines.
RECURSIVE JoinFields(_)
JoinFields(row) ==
    IF row = <<>> THEN <<>>
    ELSE IF Len(row) = 1 THEN row[1]
    ELSE row[1] \o <<",">> \o JoinFields(Tail(row))
RECURSIVE JoinRows(_)
JoinRows(rows) ==
    IF rows = <<>> THEN <<>> ELSE JoinFields(rows[1]) \o <<"\n">> \o JoinRows(Tail(rows))

\* The content with a newline after its last record.
Terminated(content) ==
    IF content = <<>> \/ content[Len(content)] = "\n" THEN content
    ELSE content \o <<"\n">>

\* The table of a returned CSV document is the records of the file.
TableOfRecords ==
    /\ Len(extracted.tables) = 1
    /\ Len(extracted.tables[1]) = NumRecords(source.body.content)
    /\ JoinRows(extracted.tables[1]) = Terminated(source.body.content)

\* C20: ingesting a CSV file always gives exactly one table whose rows are
\* the records of the file in file order, header row first, and no error; a
\* header row and n data rows give a table of n + 1 rows.
C20_CsvAlwaysOneTable ==
    (Ingested /\ IsCsvFile) =>
        /\ extracted.status = "returned"
        /\ TableOfRecords

\* ------------------------------------------------------------- the batches
BatchKinds == {"process_forms", "run_workflow"}

\* The batch of the frame has ended by an exception of its processing step.
BatchRaised ==
    /\ wf.kind \in BatchKinds /\ pc = "idle" /\ result.status = "raised"
    /\ Positions("classify") = {}

\* The events the processing of path p can leave, given how it ended.
ProcessingEvents(p) == {HitLog(p), IngestLog(p), ExtractLog(p)}

\* The events of the processing step: the log up to the classification call.
ProcessingLog ==
    IF Positions("classify") = {} THEN log
    ELSE SubSeq(log, 1, (CHOOSE c \in Positions("classify") : TRUE) - 1)

\* The number of events of kind ev among the first n of the log.
CountEvents(ev, n) == Cardinality({i \in 1..n : log[i].ev = ev})

\* C22: a batch (process_forms, and the processing step of run_workflow)
\* handles its paths strictly one at a time in list order; if processing the
\* i-th path raises, the batch raises at once with that error, the forms of
\* the paths before i stay cached and counted, and no ingestion or model call
\* is made for any path after i.
C22_BatchInOrderStopsAtFirstError ==
    wf.kind \in BatchKinds =>
        LET done == Len(wf.forms)
            plog == ProcessingLog
            begun == IF BatchRaised THEN done + 1 ELSE done
        IN
        /\ begun <= Len(wf.paths)
        /\ Visited(Len(plog) + 1) = SubSeq(wf.paths, 1, begun)
        /\ \A k \in 1..Len(plog) : plog[k].ev \in {"hit", "ingest", "extract"}
        /\ \A k \in 1..Len(plog) :
              plog[k].ev = "extract" =>
                  k > 1 /\ plog[k - 1] = Event("ingest", plog[k].path, NoForms)
        /\ (pc = "processing" \/ BatchRaised) =>
              \A j \in 1..done :
                  /\ wf.paths[j] \in DOMAIN processed_forms
                  /\ processed_forms[wf.paths[j]] = wf.forms[j]
        /\ BatchRaised =>
              LET p == wf.paths[begun]
                  last == plog[Len(plog)]
              IN
              /\ result.op = wf.kind
              /\ result.error \in {"FileNotFoundError", "LLMError", "FormatError"}
              /\ last.path = p
              /\ last.ev = IF result.error = "FileNotFoundError" THEN "ingest" ELSE "extract"
              /\ Len(plog) = Len(log)
              /\ total_llm_calls - wf.before.total_llm_calls =
                    CountEvents("extract", Len(log) - 1)
                    + (IF result.error = "FormatError" THEN 1 ELSE 0)
              /\ CountEvents("extract", Len(log) - 1) =
                    Cardinality({wf.paths[j] : j \in 1..done} \ wf.before.cached)

\* C22 witness: a process_forms over two paths whose first form was built
\* and cached and whose second path does not exist: the batch has raised, one
\* form is cached and counted.
C22_Witness ==
    /\ wf.kind = "process_forms" /\ wf.paths = <<"a", "b">>
    /\ pc = "idle" /\ result.status = "raised" /\ result.error = "FileNotFoundError"
    /\ log = ExtractLog("a") \o IngestLog("b")
    /\ DOMAIN processed_forms = {"a"} /\ processed_forms["a"] = wf.forms[1]
    /\ total_llm_calls = wf.before.total_llm_calls + 1

\* ------------------------------------------------- the calls of a workflow
\* A run_workflow invocation has returned.
WorkflowReturned ==
    wf.kind = "run_workflow" /\ pc = "idle" /\ result.status = "ok"

\* U: the distinct paths of the list that were not cached when the workflow
\* was entered.
Uncached == {wf.paths[j] : j \in 1..Len(wf.paths)} \ wf.before.cached

\* k: the calls the branch of the returned type makes over N documents.
BranchCalls(type, n) ==
    IF type = "extraction" THEN 0
    ELSE IF type \in {"qa", "analysis"} THEN 1
    ELSE n

\* C23: for a run_workflow over a list of N paths in which every call
\* succeeds, the number of model calls issued, and the increase of
\* total_llm_calls, both equal U + 1 + k, where U is the number of distinct
\* paths in the list that were not cached beforehand and k is 0 for extract,
\* 1 for qa, 1 for analyze, and N for summarize and for the general fallback
\* (one summarization per listed document, in list order).
C23_WorkflowCallCount ==
    WorkflowReturned =>
        LET n == Len(wf.paths)
            calls == Cardinality(Uncached) + 1 + BranchCalls(result.type, n)
        IN
        /\ result.type \in WorkflowTypes
        /\ issued - wf.before.issued = calls
        /\ total_llm_calls - wf.before.total_llm_calls = calls
        /\ CountEvents("extract", Len(log)) = Cardinality(Uncached)
        /\ CountEvents("classify", Len(log)) = 1
        /\ Len(AfterClassify) = BranchCalls(result.type, n)
        /\ result.type \in {"summarization", "general"} =>
              AfterClassify =
                 [i \in 1..n |-> Event("summarize", wf.paths[i], <<wf.forms[i]>>)]

\* C23 witness: a workflow over the list a, a with nothing cached, classified
\* as summarize: one extraction, the classification and two summarizations.
C23_Witness ==
    /\ WorkflowReturned /\ result.type = "summarization"
    /\ wf.paths = <<"a", "a">> /\ wf.before.cached = {}
    /\ issued - wf.before.issued = 4
    /\ total_llm_calls - wf.before.total_llm_calls = 4

\* ------------------------------------------------------- the fenced blocks
RECURSIVE JoinLines(_)
JoinLines(lines) ==
    IF lines = <<>> THEN <<>>
    ELSE IF Len(lines) = 1 THEN lines[1]
    ELSE lines[1] \o <<"\n">> \o JoinLines(Tail(lines))

\* The text without its first line and without its last line.
WithoutFirstAndLastLine(s) ==
    LET lines == split(s, "\n") IN JoinLines(SubSeq(lines, 2, Len(lines) - 1))

\* The text is the object text obj wrapped in a fenced code block, however
\* the block is laid out: the opening marker, an optional language tag, the
\* object on the next line or on the same one, and the closing marker on a
\* line of its own, on the object's line, or absent.
FencedAnyLayout(s, obj) ==
    \E tag \in {<<>>, <<"x">>}, nl1 \in {<<>>, <<"\n">>}, nl2 \in {<<>>, <<"\n">>},
       close \in {<<>>, <<"fence">>} :
        s = <<"fence">> \o tag \o nl1 \o obj \o nl2 \o close

\* The first half of C24: a trimmed response that starts with the marker
\* loses exactly its first and its last line, and what is returned comes from
\* a parse of what remains.
C24_FirstAndLastLineRemoved ==
    (decoded.status # "none" /\ startswith_fence(strip(response))) =>
        LET rest == WithoutFirstAndLastLine(strip(response)) IN
        /\ decoded.content = rest
        /\ decoded.status = "returned" =>
              \/ json_loads(rest).ok /\ decoded.value = json_loads(rest).value
              \/ /\ ~json_loads(rest).ok /\ json_match(rest).found
                 /\ decoded.value = json_loads(json_match(rest).group).value

\* C24: in the structured-generation decode, when the trimmed response starts
\* with a triple-backtick marker, exactly its first line and its last line
\* are removed and both the strict parse and the brace-span retry operate on
\* what remains; every response consisting of a JSON object wrapped in a
\* fenced code block is thereby decoded to that object, including when the
\* fence markers share a line with the JSON or the closing fence is absent.
C24_FencedObjectAlwaysDecoded ==
    /\ C24_FirstAndLastLineRemoved
    /\ decoded.status # "none" =>
          \A obj \in ObjectTexts : FencedAnyLayout(response, obj) => ReturnsObject(obj)

\* ------------------------------------------------------- failures, results
\* The failures of process_form that C27 names: ingestion raises
\* (FileNotFoundError), the model call raises or its response cannot be
\* decoded (LLMError: the exception leaves extraction_tool.run).
NamedFailures == {"FileNotFoundError", "LLMError"}

\* C27: a process_form call that fails (ingestion raises, the model call
\* raises, or the response cannot be decoded) leaves the agent state exactly
\* as it was before the call: the cache has the same paths and the same
\* entries (with force_reprocess=true on a cached path the old entry is still
\* present) and total_llm_calls is unchanged.  In a batch too.
C27_FailedProcessFormChangesNothing ==
    [][/\ (/\ IsCall("process_form") /\ result'.status = "raised"
           /\ result'.error \in NamedFailures) =>
              /\ processed_forms' = processed_forms
              /\ total_llm_calls' = total_llm_calls
              /\ next_id' = next_id
       /\ (/\ pc = "processing" /\ pc' = "idle" /\ result'.status = "raised"
           /\ Positions("classify") = {} /\ log' # log
           /\ result'.error \in NamedFailures) =>
              /\ processed_forms' = processed_forms
              /\ total_llm_calls' = total_llm_calls
              /\ next_id' = next_id]_vars

\* C27 witness: a forced reprocess of a cached path whose extraction call
\* raised: the call was issued, the old entry is still the cache entry and
\* the counter is the one of the first call.
C27_Witness ==
    /\ result.op = "process_form" /\ result.path = "a" /\ result.force
    /\ result.status = "raised" /\ result.error = "LLMError"
    /\ log = ExtractLog("a")
    /\ "a" \in DOMAIN processed_forms /\ processed_forms["a"] = ProcessedForm(1, "a")
    /\ total_llm_calls = 1 /\ issued = 2

\* The workflow of the frame has ended and every document was processed and
\* every model call it made returned.
WorkflowEndedWithoutCallError ==
    /\ wf.kind = "run_workflow" /\ pc = "idle"
    /\ result.error \notin {"FileNotFoundError", "LLMError", "FormatError"}

\* C28: whenever document processing and every model call succeed and the
\* classification call returns a mapping, run_workflow terminates and
\* returns a result whose type is one of extraction, qa, summarization,
\* analysis, general; this holds also when the returned mapping has no
\* task_type key, and when the document list is empty.
C28_WorkflowReturnsTypedResult ==
    WorkflowEndedWithoutCallError =>
        /\ result.status = "ok"
        /\ result.type \in WorkflowTypes

\* C29, the step part: get_stats reports the cache and the counter as they
\* are and changes neither.
C29_GetStatsReadOnly ==
    IsCall("get_stats") =>
        /\ result'.status = "ok"
        /\ result'.stats.cached_forms = Cardinality(result'.stats.cached_form_paths)
        /\ result'.stats.cached_form_paths = DOMAIN processed_forms
        /\ result'.stats.total_llm_calls = total_llm_calls
        /\ processed_forms' = processed_forms
        /\ total_llm_calls' = total_llm_calls

\* C29: in every reachable state of a single-caller agent, the number of
\* cached forms is at most total_llm_calls, and get_stats is read-only: it
\* reports cached_forms equal to the number of entries in cached_form_paths,
\* which are exactly the paths currently in the cache, and changes neither
\* the cache nor the counter.
C29_CachedAtMostCalls ==
    /\ [](Cardinality(DOMAIN processed_forms) <= total_llm_calls)
    /\ [][C29_GetStatsReadOnly]_vars

\* C29 witness: get_stats after a path was processed and then reprocessed:
\* one cached form, two calls counted, both reported.
C29_Witness ==
    /\ result.op = "get_stats"
    /\ result.stats = [total_llm_calls |-> 2, cached_forms |-> 1, cached_form_paths |-> {"a"}]
    /\ DOMAIN processed_forms = {"a"} /\ total_llm_calls = 2

\* ------------------------------------------------ several callers, one path
\* The caller has passed the cache check of an unforced call for path p and
\* its extraction call has been answered.
Extracted(t, p) ==
    /\ callers[t].path = p /\ ~callers[t].force
    /\ \/ callers[t].pc \in {"load", "add", "build"}
       \/ callers[t].pc = "idle" /\ callers[t].outcome \in {"built", "format_error"}

\* Once past the cache check a call never looks at the cache again: if the
\* file is there it issues its extraction call, whatever was stored since.
C21_NoSecondCheck ==
    \A t \in Callers :
        /\ (callers[t].pc = "ingest" /\ callers'[t] # callers[t]) =>
              \/ callers'[t].pc = "extract"
              \/ callers'[t].pc = "idle" /\ callers'[t].outcome = "not_found"
        /\ (callers[t].pc = "extract" /\ callers'[t] # callers[t]) =>
              /\ extract_calls'[callers[t].path] = extract_calls[callers[t].path] + 1
              /\ issued' = issued + 1

\* Every call that got as far has issued an extraction call of its own.
C21_OneCallEach ==
    \A p \in Paths :
        extract_calls[p] >= Cardinality({t \in Callers : Extracted(t, p)})

\* C21: under unsynchronized concurrent use of one agent, the
\* at-most-one-extraction-per-path invariant breaks: two callers that invoke
\* process_form for the same not-yet-cached path without force_reprocess can
\* both pass the cache check and both issue a field-extraction call, so a
\* state with two extraction calls for one path in one cache lifetime is
\* reachable (C21_Witness is that state).
C21_BothCallersExtract == []C21_OneCallEach /\ [][C21_NoSecondCheck]_vars

\* C21 witness: two unforced calls for the path a, not cached before, have
\* both returned a form of their own: two extraction calls for a, none of
\* them forced, none failed.
C21_Witness ==
    /\ \A t \in Callers :
          /\ callers[t].pc = "idle" /\ callers[t].outcome = "built"
          /\ callers[t].path = "a" /\ ~callers[t].force
    /\ callers[1].form # callers[2].form
    /\ extract_calls["a"] = 2 /\ forced_calls["a"] = 0 /\ failed_calls["a"] = 0
    /\ ~C3_AtMostOnePlusForcedPlusFailed

\* ------------------------------------------------- the fields of the forms
\* The fields of the object a reference points to.
FieldsOf(form) == instances[form.id]

\* C25, the step part: every object built so far is there after the step
\* with the fields it had; a cache hit returns the cached object itself; a
\* forced reprocess that succeeds puts a new object in the cache and leaves
\* the old one as it was.
C25_NoFieldChanges ==
    /\ \A id \in DOMAIN instances :
          id \in DOMAIN instances' /\ instances'[id] = instances[id]
    /\ \A p \in Paths :
          /\ (IsProcessForm(p, FALSE) /\ p \in DOMAIN processed_forms) =>
                /\ result'.forms = <<processed_forms[p]>>
                /\ processed_forms' = processed_forms
                /\ instances' = instances
          /\ (/\ IsProcessForm(p, TRUE) /\ p \in DOMAIN processed_forms
              /\ result'.status = "ok") =>
                /\ processed_forms'[p].id \notin DOMAIN instances
                /\ processed_forms'[p].id \in DOMAIN instances'
                /\ processed_forms'[p].id # processed_forms[p].id
                /\ instances'[processed_forms[p].id] = instances[processed_forms[p].id]
    /\ IsCall("to_dict") => result'.stats = instances[result'.forms[1].id]

\* C25: no agent operation changes a ProcessedForm after it has been
\* created: process_form (cache hit or forced), ask, summarize, analyze,
\* run_workflow, get_stats and clear_cache leave every field of every
\* previously returned ProcessedForm unchanged, and a forced reprocess
\* installs a distinct new instance in the cache rather than updating the
\* old one.
C25_FormsAreNeverChanged == [][C25_NoFieldChanges]_vars

\* C25 witness: the path a was processed and then reprocessed by force, the
\* model answering another confidence: the cache holds the second object,
\* and the first one has the fields it was built with.
C25_Witness ==
    /\ result.op = "process_form" /\ result.path = "a" /\ result.force
    /\ result.status = "ok"
    /\ DOMAIN instances = {1, 2}
    /\ "a" \in DOMAIN processed_forms /\ processed_forms["a"] = ProcessedForm(2, "a")
    /\ instances[1].file_path = "a" /\ instances[1].extraction_confidence = 5
    /\ instances[2].file_path = "a" /\ instances[2].extraction_confidence = 0

\* The range [0.0, 1.0], in tenths.
ConfidenceRange == 0..10

\* C26: every ProcessedForm stored in the cache has an extraction confidence
\* within [0.0, 1.0], whatever confidence value the model response carried
\* (including values outside the range and a missing value, which becomes
\* 0.0).
C26_CachedConfidenceInRange ==
    \A p \in DOMAIN processed_forms :
        FieldsOf(processed_forms[p]).extraction_confidence \in ConfidenceRange

\* The two path strings name one file.
SameFile(p, q) == p # q /\ source[p] # NoFile /\ source[p] = source[q]

\* C30, the state part: every cache entry is the form built for its key.
C30_EntryPathIsKey ==
    \A p \in DOMAIN processed_forms :
        /\ processed_forms[p].file_path = p
        /\ FieldsOf(processed_forms[p]).file_path = p

\* C30, the step part: an unforced process_form for a string that is no key
\* of the cache is no hit, also when another spelling of its file is a key:
\* it runs ingestion and issues its own extraction call, and when it returns
\* the string is a new key beside the other.
C30_SpellingsAreDistinctKeys ==
    \A p \in Paths, q \in Paths :
        (/\ IsProcessForm(q, FALSE) /\ SameFile(p, q)
         /\ p \in DOMAIN processed_forms /\ q \notin DOMAIN processed_forms) =>
            /\ log' \in {ExtractLog(q)}
            /\ issued' = issued + 1
            /\ processed_forms'[p] = processed_forms[p]
            /\ result'.status = "ok" =>
                  /\ DOMAIN processed_forms' = DOMAIN processed_forms \cup {q}
                  /\ processed_forms'[q] # processed_forms'[p]
                  /\ instances'[processed_forms'[q].id].file_path = q
                  /\ instances'[processed_forms'[q].id].raw_text =
                        instances[processed_forms[p].id].raw_text

====
